---- MODULE Spec2Model ----
(***************************************************************************)
(* A model of the Anubis request-gating engine (lib/anubis.go): the policy *)
(* evaluator, the proof-of-work challenge protocol, the signed session     *)
(* token and the denylist cache, as one state machine whose actions are    *)
(* the HTTP handlers of lib.Server.                                        *)
(*                                                                         *)
(* Time is counted in whole seconds on Go's time line (multiples of 7 days *)
(* are taken since the zero time, as Time.Round does).  Strings that are   *)
(* hex SHA-256 digests are records naming their preimage, so two digests   *)
(* are equal exactly when their preimages are (no collisions); the number  *)
(* of leading '0' characters of a digest is a fixed function of the        *)
(* preimage.                                                               *)
(***************************************************************************)
EXTENDS Integers, Sequences, FiniteSets, TLC

VARIABLES
    policy,               \* Server.policy: the parsed policy (immutable after New)
    opts,                 \* Server.opts: the cookie options given to New
    proc,                 \* the process of cmd/anubis: main, its servers and its goroutines
    now,                  \* the wall clock, seconds
    DNSBLCache,           \* Server.DNSBLCache: ip -> [value, expiry], absent keys not in DOMAIN
    OGTags,               \* Server.OGTags: the cache of the origin's Open Graph tags, url -> [value, expiry]
    jar,                  \* the cookie the client holds (set by Set-Cookie, dropped by ClearCookie)
    challengesIssued,     \* metric anubis_challenges_issued
    challengesValidated,  \* metric anubis_challenges_validated
    failedValidations,    \* metric anubis_failed_validations
    timeTaken,            \* metric anubis_time_taken: number of observations
    droneBLHits,          \* metric anubis_dronebl_hits: number of increments
    req,                  \* the request handled by the last step
    resp,                 \* what the handler did with it
    served,               \* number of requests handled so far
    ticks                 \* number of clock advances so far

vars == <<policy, opts, proc, now, DNSBLCache, OGTags, jar, challengesIssued, challengesValidated,
          failedValidations, timeTaken, droneBLHits, req, resp, served, ticks>>

-----------------------------------------------------------------------------
(* Bounds of the model *)

MaxRequests == 2
MaxTicks == 1
MaxDifficulty == 9

-----------------------------------------------------------------------------
(* Time *)

Minute == 60
Hour == 3600
WeekDuration == 24 * 7 * Hour

\* a ttl of one hour
DNSBLTimeToLiveHour == Hour

DNSBLTimeToLive == 24 * Hour

\* time.Time.Truncate(d) in the place of Round: the multiple of d at or before t
RoundDown(t, d) == t - (t % d)

\* time.Time.Round(d): the nearest multiple of d since the zero time,
\* halfway values rounding up.
Round(t, d) ==
    LET r == t % d
    IN  IF r + r < d THEN t - r ELSE t + (d - r)

\* the clock when the server starts: one second before the middle of a week
StartTime == 10 * WeekDuration + (WeekDuration \div 2) - 1

TickSteps == {1, DNSBLTimeToLive, WeekDuration}

-----------------------------------------------------------------------------
(* Strings: header values, digests, integers *)

\* X-Real-Ip header values; "" is an absent header
IPv4Addr == "192.0.2.1"
IPv6Addr == "2001:db8::1"
NotAnIP == "not-an-ip"

\* net.ParseIP: the address family, or "nil" when the text is no IP address
ParseIP(host) ==
    CASE host = IPv4Addr -> "v4"
      [] host = IPv6Addr -> "v6"
      [] OTHER -> "nil"

\* An int of the program: hi * 2^53 + lo.
Int64(hi, lo) == [hi |-> hi, lo |-> lo]
NoInt == Int64(-1, -1)

\* strconv.Atoi: the value of a decimal string, NoInt when it does not parse
Atoi(s) ==
    CASE s = "0" -> Int64(0, 0)
      [] s = "1" -> Int64(0, 1)
      [] s = "+1" -> Int64(0, 1)
      [] s = "9007199254740993" -> Int64(1, 1)
      [] s = "9007199254740995" -> Int64(1, 3)
      [] OTHER -> NoInt

\* strconv.ParseFloat(s, 64) succeeds
ParsesAsFloat(s) == s \in {"420", "0.5"}

\* internal.SHA256sum: the hex digest of a string
SHA256sum(x) == [sha256 |-> x]

\* fmt.Sprintf("%s%d", challenge, nonce)
CalcString(challenge, nonce) == [pow |-> challenge, nonce |-> nonce]

\* a response string that is no digest: zeros '0' characters, then something else
Junk(zeros) == [junk |-> zeros]

\* the number of leading '0' characters of a hex string
ZeroTable == <<0, 4, 1, 9>>
LeadingZeros(s) ==
    IF "junk" \in DOMAIN s THEN s.junk
    ELSE LET p == s.sha256
         IN  ZeroTable[((p.nonce.lo + 2 * p.nonce.hi + p.pow.sha256.Difficulty) % 4) + 1]

\* strings.HasPrefix(s, strings.Repeat("0", n))
HasZeroPrefix(s, n) == LeadingZeros(s) >= n

-----------------------------------------------------------------------------
(* Policy *)

RuleAllow == "ALLOW"
RuleDeny == "DENY"
RuleChallenge == "CHALLENGE"
RuleBenchmark == "DEBUG_BENCHMARK"
AlgorithmFast == "fast"

ChallengeRules(d) == [Difficulty |-> d, ReportAs |-> d, Algorithm |-> AlgorithmFast]
NilChallenge == [Difficulty |-> -1, ReportAs |-> -1, Algorithm |-> "nil"]

Bot(name, action, challenge, kind, arg) ==
    [Name |-> name, Action |-> action, Challenge |-> challenge,
     Rules |-> [kind |-> kind, arg |-> arg]]
NilBot == Bot("", "", NilChallenge, "nil", "")

\* Checker.Check: "match", "nomatch" or "error"
RulesCheck(c, r) ==
    CASE c.kind = "header_exists" -> IF r.ua # "" THEN "match" ELSE "nomatch"
      [] c.kind = "user_agent"    -> IF r.ua = c.arg THEN "match" ELSE "nomatch"
      [] c.kind = "path"          -> IF r.path = c.arg THEN "match" ELSE "nomatch"
      [] c.kind = "remote_addr"   -> IF ParseIP(r.ip) = "nil" THEN "error"
                                     ELSE IF r.ip = c.arg THEN "match" ELSE "nomatch"
      [] OTHER -> "nomatch"

\* Checker.Hash
RulesHash(c) == SHA256sum([checker |-> c.kind, pattern |-> c.arg])

\* Bot.Hash without the rule's name
BotHashNameless(b) == SHA256sum([name |-> "", rules |-> RulesHash(b.Rules)])

\* Bot.Hash
BotHash(b) == SHA256sum([name |-> b.Name, rules |-> RulesHash(b.Rules)])

ApiPath == "/.within.website/x/cmd/anubis/api"

SitePolicy ==
    << Bot("v6-allow", RuleAllow, ChallengeRules(4), "remote_addr", IPv6Addr),
       Bot("bad-bot", RuleDeny, ChallengeRules(4), "user_agent", "BadBot"),
       Bot("hard-path", RuleChallenge, ChallengeRules(2), "path", "/hard"),
       Bot("browsers", RuleChallenge, ChallengeRules(1), "user_agent", "Mozilla"),
       Bot("late-deny", RuleDeny, ChallengeRules(4), "user_agent", "Mozilla") >>

\* cmd/anubis main: the single rule installed by -debug-benchmark-js
BenchmarkPolicy ==
    << Bot("", RuleBenchmark, NilChallenge, "header_exists", "User-Agent") >>

ParsedConfig(bots, d, dnsbl) == [Bots |-> bots, DefaultDifficulty |-> d, DNSBL |-> dnsbl]

CheckResult(name, rule) == [Name |-> name, Rule |-> rule]
ZilchCheckResult == CheckResult("", "")

\* What Server.check returns: the check result, the rule, the error ("" for
\* nil) and, for the properties, how many rule predicates it evaluated.
Checked(cr, rule, err, evaluated) ==
    [cr |-> cr, rule |-> rule, err |-> err, evaluated |-> evaluated]

\* the guard left out
HostErrorNone(host) == ""

\* the guard accepting IPv4 addresses only
HostErrorIPv4Only(host) ==
    IF ParseIP(host) = "v4" THEN "" ELSE "misconfiguration"

\* Server.check, the guard on the X-Real-Ip header: the error it returns
HostError(host) ==
    IF host = "" THEN "misconfiguration"
    ELSE IF ParseIP(host) = "nil" THEN "misconfiguration"
    ELSE ""

\* Server.check, the result for the matching rule b
MatchResult(b) == [cr |-> CheckResult("bot/" \o b.Name, b.Action), rule |-> b]

\* the default result with anubis.DefaultDifficulty in the place of the
\* policy's default difficulty
DefaultResultFixed(p) ==
    [cr |-> CheckResult("default/allow", RuleAllow),
     rule |-> [Name |-> "", Action |-> "",
               Challenge |-> [Difficulty |-> 4, ReportAs |-> 4, Algorithm |-> AlgorithmFast],
               Rules |-> [kind |-> "nil", arg |-> ""]]]

\* Server.check, the result when no rule matches
DefaultResult(p) ==
    [cr |-> CheckResult("default/allow", RuleAllow),
     rule |-> [Name |-> "", Action |-> "",
               Challenge |-> [Difficulty |-> p.DefaultDifficulty,
                              ReportAs |-> p.DefaultDifficulty,
                              Algorithm |-> AlgorithmFast],
               Rules |-> [kind |-> "nil", arg |-> ""]]]

\* the loop without the return on a match: the last matching rule wins
RECURSIVE CheckFromLast(_, _, _)
CheckFromLast(p, r, i) ==
    IF i > Len(p.Bots)
    THEN Checked(DefaultResult(p).cr, DefaultResult(p).rule, "", i - 1)
    ELSE LET b == p.Bots[i]
             match == RulesCheck(b.Rules, r)
             rest == CheckFromLast(p, r, i + 1)
         IN  IF match = "error"
             THEN Checked(ZilchCheckResult, NilBot, "check", i)
             ELSE IF match = "match" /\ (rest.err # "" \/ rest.cr.Name = "default/allow")
             THEN Checked(MatchResult(b).cr, MatchResult(b).rule, "", Len(p.Bots))
             ELSE rest

\* Server.check, the loop over s.policy.Bots from index i
RECURSIVE CheckFrom(_, _, _)
CheckFrom(p, r, i) ==
    IF i > Len(p.Bots)
    THEN Checked(DefaultResult(p).cr, DefaultResult(p).rule, "", i - 1)
    ELSE LET b == p.Bots[i]
             match == RulesCheck(b.Rules, r)
         IN  IF match = "error"
             THEN Checked(ZilchCheckResult, NilBot, "check", i)
             ELSE IF match = "match"
             THEN Checked(MatchResult(b).cr, MatchResult(b).rule, "", i)
             ELSE CheckFrom(p, r, i + 1)

\* Server.check
check(p, r) ==
    IF HostError(r.ip) # ""
    THEN Checked(ZilchCheckResult, NilBot, HostError(r.ip), 0)
    ELSE CheckFrom(p, r, 1)

-----------------------------------------------------------------------------
(* Challenge and token *)

ServerKey == "server-key"
OtherKey == "other-key"

\* challengeFor with the request's path among the inputs of the digest
challengeForPath(r, difficulty, t) ==
    SHA256sum([AcceptLanguage |-> r.lang,
               XRealIP |-> r.ip,
               UserAgent |-> r.ua,
               WeekTime |-> Round(t, WeekDuration),
               Fingerprint |-> SHA256sum([seed |-> ServerKey]),
               Difficulty |-> difficulty,
               Path |-> r.path])

\* Server.challengeFor at clock t
challengeFor(r, difficulty, t) ==
    SHA256sum([AcceptLanguage |-> r.lang,
               XRealIP |-> r.ip,
               UserAgent |-> r.ua,
               WeekTime |-> Round(t, WeekDuration),
               Fingerprint |-> SHA256sum([seed |-> ServerKey]),
               Difficulty |-> difficulty])

NoCookie == [kind |-> "none"]
MalformedCookie == [kind |-> "malformed"]
JWTCookie(tok) == [kind |-> "jwt", tok |-> tok]

\* the values time.Now returns to PassChallenge, in the order of its calls:
\* in challengeFor (anubis.go:463), for iat, nbf and exp (anubis.go:498-500)
\* and for the cookie's Expires (anubis.go:513)
Readings(derive, iat, nbf, exp, expires) ==
    [derive |-> derive, iat |-> iat, nbf |-> nbf, exp |-> exp, expires |-> expires]

\* the readings of a handler that runs within one second of the clock
Steady(t) == Readings(t, t, t, t, t)

\* the claims PassChallenge signs, the clock read as clk
Claims(challenge, nonce, response, clk) ==
    [challenge |-> challenge, nonce |-> nonce, response |-> response,
     iat |-> clk.iat, nbf |-> clk.nbf - Minute, exp |-> clk.exp + WeekDuration]

\* jwt.Token.SignedString: the claims under the signature of key
Sign(claims, key) == [key |-> key, claims |-> claims]

\* encoding/json round trip of an int claim through float64 (MapClaims):
\* integers above 2^53 are rounded to the nearest even mantissa
Float64(n) ==
    IF n.hi = 0 THEN n
    ELSE IF n.lo % 2 = 0 THEN n
    ELSE IF n.lo % 4 = 1 THEN Int64(n.hi, n.lo - 1)
    ELSE Int64(n.hi, n.lo + 1)

\* the exp of a token that carries none
NoExp == -1

\* the parse without the verification of the signature
TokenValidUnsigned(ckie, pub, t) ==
    /\ ckie.kind = "jwt"
    /\ ckie.tok.claims.exp # NoExp
    /\ t < ckie.tok.claims.exp
    /\ t >= ckie.tok.claims.nbf

\* jwt.ParseWithClaims(ckie.Value, ..., s.pub, WithExpirationRequired, WithStrictDecoding)
\* at clock t: the token is well formed, signed by pub, and its exp is
\* present and in the future, its nbf not in the future
TokenValid(ckie, pub, t) ==
    /\ ckie.kind = "jwt"
    /\ ckie.tok.key = pub
    /\ ckie.tok.claims.exp # NoExp
    /\ t < ckie.tok.claims.exp
    /\ t >= ckie.tok.claims.nbf

-----------------------------------------------------------------------------
(* Decaying map and denylist *)

AllGood == "AllGood"
IRCDrone == "IRCDrone"
UnknownError == "UnknownError"

\* a Get that never looks at the expiry
DecayGetUnexpiring(m, k, t) ==
    IF k \notin DOMAIN m
    THEN [value |-> AllGood, ok |-> FALSE, data |-> m]
    ELSE [value |-> m[k].value, ok |-> TRUE, data |-> m]

\* decaymap.Impl.Get at clock t: the value, whether it is present, and the
\* map afterwards (an expired entry is removed)
DecayGet(m, k, t) ==
    IF k \notin DOMAIN m
    THEN [value |-> AllGood, ok |-> FALSE, data |-> m]
    ELSE IF m[k].expiry <= t
    THEN [value |-> AllGood, ok |-> FALSE, data |-> [x \in DOMAIN m \ {k} |-> m[x]]]
    ELSE [value |-> m[k].value, ok |-> TRUE, data |-> m]

\* a Set that keeps the entry a key already has: the first write wins
DecaySetIfAbsent(m, k, v, ttl, t) ==
    IF k \in DOMAIN m THEN m
    ELSE [x \in DOMAIN m \cup {k} |-> IF x = k THEN [value |-> v, expiry |-> t + ttl] ELSE m[x]]

\* decaymap.Impl.Set at clock t
DecaySet(m, k, v, ttl, t) ==
    [x \in DOMAIN m \cup {k} |-> IF x = k THEN [value |-> v, expiry |-> t + ttl] ELSE m[x]]

\* a Cleanup that spares the entries expiring at this very instant
DecayCleanupLate(m, t) ==
    [x \in {k \in DOMAIN m : m[k].expiry >= t} |-> m[x]]

\* decaymap.Impl.Cleanup at clock t: the entries that have expired are removed
DecayCleanup(m, t) ==
    [x \in {k \in DOMAIN m : m[k].expiry > t} |-> m[x]]

\* a CleanupDecayMap that forgets the OG-tag cache
CleanedDenylistOnly(dnsbl, og, t) == [dnsbl |-> DecayCleanup(dnsbl, t), og |-> og]

\* Server.CleanupDecayMap at clock t: Cleanup on the denylist cache and on
\* the OG-tag cache
CleanedCaches(dnsbl, og, t) == [dnsbl |-> DecayCleanup(dnsbl, t), og |-> DecayCleanup(og, t)]

\* dnsbl.Lookup: the answers the resolver can give for ip
\* (an IPv4 address is listed or not, or the lookup fails; anything else is
\* rejected with an error)
Lookup(ip) ==
    IF ParseIP(ip) = "v4"
    THEN {[resp |-> AllGood, err |-> FALSE], [resp |-> IRCDrone, err |-> FALSE],
          [resp |-> UnknownError, err |-> TRUE]}
    ELSE {[resp |-> UnknownError, err |-> TRUE]}

-----------------------------------------------------------------------------
(* Requests and responses *)

Request(ip, ua, lang, path, cookie, nonce, elapsedTime, response, redir) ==
    [ip |-> ip, ua |-> ua, lang |-> lang, path |-> path, cookie |-> cookie,
     nonce |-> nonce, elapsedTime |-> elapsedTime, response |-> response, redir |-> redir]

NoRequest == Request("", "", "", "", NoCookie, "", "", Junk(0), "")

NoBody == [none |-> TRUE]

\* Options: the fields that shape the session cookie
Options(domain, partitioned, name) ==
    [CookieDomain |-> domain, CookiePartitioned |-> partitioned, CookieName |-> name]

\* anubis.CookieName
AnubisCookieName == "within.website-x-cmd-anubis-auth"

\* http.Cookie: the attributes beside the value
Cookie(name, domain, partitioned, sameSite, path, expires) ==
    [name |-> name, domain |-> domain, partitioned |-> partitioned,
     sameSite |-> sameSite, path |-> path, expires |-> expires]
NoAttrs == Cookie("", "", FALSE, "", "", NoExp)

\* the observable effect of a handler on one request, before anything is written
Response(op, c) ==
    [op |-> op,
     at |-> now,                \* the clock when the request was handled
     c |-> c,                   \* what check returned
     status |-> 0,              \* HTTP status written by Anubis; 0: none (forwarded, or the handler panicked)
     page |-> "",               \* which page was rendered
     body |-> NoBody,           \* the datum embedded in the page
     rules |-> NilChallenge,    \* the challenge params in MakeChallenge's JSON answer
     forwarded |-> FALSE,       \* s.next.ServeHTTP was called
     xrule |-> "",              \* X-Anubis-Rule value added to the request
     xaction |-> "",            \* X-Anubis-Action value added to the request
     xstatus |-> "",            \* X-Anubis-Status value added to the request
     cleared |-> FALSE,         \* ClearCookie was called
     setCookie |-> NoCookie,    \* http.SetCookie of a session token
     attrs |-> NoAttrs,         \* and the attributes of that cookie
     redirect |-> "",           \* Location of the redirect
     lookedUp |-> FALSE,        \* dnsbl.Lookup was called
     lookup |-> "",             \* and returned this
     lookupErr |-> FALSE,       \* with a non-nil error
     cached |-> ""]             \* the classification DNSBLCache.Get returned, if present

\* a panic in the handler: net/http recovers it and drops the connection,
\* nothing the handler put in the response headers reaches the client
Panicked(base) == [base EXCEPT !.page = "panic"]

\* the clients of the model: X-Real-Ip, User-Agent, Accept-Language
Client(ip, ua, lang) == [ip |-> ip, ua |-> ua, lang |-> lang]
Browser == Client(IPv4Addr, "Mozilla", "en")
Clients ==
    { Browser,
      Client(IPv4Addr, "BadBot", "en"),
      Client(IPv4Addr, "curl", "de"),
      Client(IPv6Addr, "Mozilla", "en"),
      Client(NotAnIP, "Mozilla", "en"),
      Client("", "Mozilla", "en") }

-----------------------------------------------------------------------------
(* Server.MaybeReverseProxy *)

\* the stamping with the rule's name alone
StampedRuleOnly(base, c) == [base EXCEPT !.xrule = c.cr.Name]

\* anubis.go:205-206: the check result's name and action added to the
\* request's headers
Stamped(base, c) == [base EXCEPT !.xrule = c.cr.Name, !.xaction = c.cr.Rule]

\* the switch without its default branch: an unknown action falls through to
\* the cookie inspection
DispatchNoDefault(action) ==
    CASE action = RuleAllow -> "forward"
      [] action = RuleDeny -> "deny"
      [] action = RuleBenchmark -> "bench"
      [] OTHER -> "challenge"

\* anubis.go:231-259: the switch on the action of the check result
Dispatch(action) ==
    CASE action = RuleAllow -> "forward"
      [] action = RuleDeny -> "deny"
      [] action = RuleChallenge -> "challenge"
      [] action = RuleBenchmark -> "bench"
      [] OTHER -> "error"

\* the value of the variable resp tested at anubis.go:224, given what the
\* cache returned (got) and what the lookup made on a miss returned (lk):
\* the lookup's result is bound to a variable of the inner block
DNSBLVerdict(got, lk) == got.value

\* the cookie is one the handler goes on to parse: present, valid, not expired
\* (a request cookie carries no Expires attribute)
CookieUsable(ckie) == ckie.kind # "none" /\ ckie.kind # "malformed"

\* the screening left out: every valid token passes
ScreeningSkipped(claims, r, rule, t) == "ok"

\* the screening without the comparison of the challenge
ScreeningResponseOnly(claims, r, rule, t) ==
    LET challenge == challengeFor(r, rule.Challenge.Difficulty, t)
        nonce == Float64(claims.nonce)
        calculated == SHA256sum(CalcString(challenge, nonce))
    IN  IF claims.response # calculated THEN "response"
        ELSE "ok"

\* the secondary screening of anubis.go:301-332 at clock t:
\* "ok", "challenge" (invalid challenge) or "response" (invalid response)
Screening(claims, r, rule, t) ==
    LET challenge == challengeFor(r, rule.Challenge.Difficulty, t)
        nonce == Float64(claims.nonce)
        calculated == SHA256sum(CalcString(challenge, nonce))
    IN  IF claims.challenge # challenge THEN "challenge"
        ELSE IF claims.response # calculated THEN "response"
        ELSE "ok"

\* a RenderIndex that writes nothing
RenderIndexNothing(base, r, rule, t) == base

\* Server.RenderIndex: the challenge page for rule
RenderIndex(base, r, rule, t) ==
    IF rule.Challenge = NilChallenge THEN Panicked(base)
    ELSE [base EXCEPT !.status = 200, !.page = "challenge",
                      !.body = challengeFor(r, rule.Challenge.Difficulty, t)]

\* the handler on request r when randomJitter returns coin and a lookup, if
\* one is made, returns lk: the response, the cache afterwards and the
\* increments of the counters
MaybeReverseProxyOn(r, coin, lk) ==
    LET c == check(policy, r)
        base == Response("MaybeReverseProxy", c)
        useDNSBL == policy.DNSBL /\ r.ip # ""
        got == DecayGet(DNSBLCache, r.ip, now)
        miss == useDNSBL /\ ~got.ok
        cache == IF ~useDNSBL THEN DNSBLCache
                 ELSE IF miss THEN DecaySet(got.data, r.ip, lk.resp, DNSBLTimeToLive, now)
                 ELSE got.data
        seen == [Stamped(base, c) EXCEPT !.lookedUp = miss, !.lookup = IF miss THEN lk.resp ELSE "",
                             !.lookupErr = miss /\ lk.err,
                             !.cached = IF useDNSBL /\ got.ok THEN got.value ELSE ""]
        cleared == [seen EXCEPT !.cleared = TRUE]
        out(rs, failed) == [resp |-> rs, cache |-> cache,
                            hits |-> IF miss THEN 1 ELSE 0, failed |-> failed]
    IN  IF c.err # ""
        THEN [resp |-> [base EXCEPT !.status = 500, !.page = "error"],
              cache |-> DNSBLCache, hits |-> 0, failed |-> 0]
        ELSE IF useDNSBL /\ DNSBLVerdict(got, lk) # AllGood
        THEN out([seen EXCEPT !.status = 200, !.page = "dnsbl"], 0)
        ELSE IF Dispatch(c.cr.Rule) = "forward"
        THEN out([seen EXCEPT !.forwarded = TRUE], 0)
        ELSE IF Dispatch(c.cr.Rule) = "deny"
        THEN IF c.rule = NilBot
             THEN out([cleared EXCEPT !.status = 500, !.page = "error"], 0)
             ELSE out([cleared EXCEPT !.status = 200, !.page = "deny",
                                      !.body = BotHash(c.rule)], 0)
        ELSE IF Dispatch(c.cr.Rule) = "bench"
        THEN out([seen EXCEPT !.status = 200, !.page = "bench"], 0)
        ELSE IF Dispatch(c.cr.Rule) = "error"
        THEN out([cleared EXCEPT !.status = 500, !.page = "error"], 0)
        ELSE IF ~CookieUsable(r.cookie)
        THEN out(RenderIndex(cleared, r, c.rule, now), 0)
        ELSE IF ~TokenValid(r.cookie, ServerKey, now)
        THEN out(RenderIndex(cleared, r, c.rule, now), 0)
        ELSE IF coin
        THEN out([seen EXCEPT !.forwarded = TRUE, !.xstatus = "PASS-BRIEF"], 0)
        ELSE IF c.rule.Challenge = NilChallenge
        THEN out(Panicked(seen), 0)
        ELSE LET verdict == Screening(r.cookie.tok.claims, r, c.rule, now)
             IN  IF verdict = "challenge"
                 THEN out(RenderIndex(cleared, r, c.rule, now), 0)
                 ELSE IF verdict = "response"
                 THEN out(RenderIndex(cleared, r, c.rule, now), 1)
                 ELSE out([seen EXCEPT !.forwarded = TRUE, !.xstatus = "PASS-FULL"], 0)

\* the cookie the client holds after the response rs
JarAfter(rs) ==
    IF rs.page = "panic" THEN jar
    ELSE IF rs.setCookie # NoCookie THEN rs.setCookie
    ELSE IF rs.cleared THEN NoCookie
    ELSE jar

\* a token signed by another key, carrying the claims a client may choose
ForgedCookie ==
    IF jar.kind = "jwt" THEN JWTCookie(Sign(jar.tok.claims, OtherKey))
    ELSE JWTCookie(Sign(Claims(challengeFor(NoRequest, 0, now), Int64(0, 0), Junk(9), Steady(now)), OtherKey))

\* the gated requests of the model: every client asks for "/" with the
\* cookie it holds; the browser also asks for "/hard", and for "/" without
\* a cookie and with broken ones
GatedRequests ==
    { Request(cl.ip, cl.ua, cl.lang, "/", jar, "", "", Junk(0), "") : cl \in Clients }
    \cup { Request(Browser.ip, Browser.ua, Browser.lang, "/hard", ck, "", "", Junk(0), "") :
              ck \in {NoCookie, jar} }
    \cup { Request(Browser.ip, Browser.ua, Browser.lang, "/", ck, "", "", Junk(0), "") :
              ck \in {NoCookie, MalformedCookie, ForgedCookie} }

\* the outcomes of randomJitter that matter for r: both when the coin is flipped
Coins(r) ==
    IF Dispatch(check(policy, r).cr.Rule) = "challenge" /\ TokenValid(r.cookie, ServerKey, now)
    THEN BOOLEAN ELSE {FALSE}

\* the answers of the resolver that matter for r: all when a lookup is made
Answers(r) ==
    IF policy.DNSBL /\ r.ip # "" /\ ~DecayGet(DNSBLCache, r.ip, now).ok
    THEN Lookup(r.ip) ELSE {[resp |-> AllGood, err |-> FALSE]}

MaybeReverseProxy ==
    /\ served < MaxRequests
    /\ \E r \in GatedRequests :
         \E coin \in Coins(r), lk \in Answers(r) :
           LET o == MaybeReverseProxyOn(r, coin, lk)
           IN  /\ req' = r
               /\ resp' = o.resp
               /\ DNSBLCache' = o.cache
               /\ droneBLHits' = droneBLHits + o.hits
               /\ failedValidations' = failedValidations + o.failed
               /\ jar' = JarAfter(o.resp)
    /\ served' = served + 1
    /\ UNCHANGED <<policy, opts, OGTags, proc, now, challengesIssued, challengesValidated, timeTaken, ticks>>

-----------------------------------------------------------------------------
(* Server.MakeChallenge *)

MakeChallengeOn(r) ==
    LET c == check(policy, r)
        base == Response("MakeChallenge", c)
    IN  IF c.err # ""
        THEN [resp |-> [base EXCEPT !.status = 500, !.page = "json-error"], issued |-> 0]
        ELSE IF c.rule.Challenge = NilChallenge
        THEN [resp |-> Panicked(base), issued |-> 0]
        ELSE [resp |-> [base EXCEPT !.status = 200, !.page = "json",
                                    !.body = challengeFor(r, c.rule.Challenge.Difficulty, now),
                                    !.rules = c.rule.Challenge],
              issued |-> 1]

ApiRequests(forms) ==
    { Request(cl.ip, cl.ua, cl.lang, ApiPath, NoCookie, f.nonce, f.elapsedTime, f.response, "/") :
        cl \in Clients, f \in forms }

NoForm == [nonce |-> "", elapsedTime |-> "", response |-> Junk(0)]

MakeChallenge ==
    /\ served < MaxRequests
    /\ \E r \in ApiRequests({NoForm}) :
         LET o == MakeChallengeOn(r)
         IN  /\ req' = r
             /\ resp' = o.resp
             /\ challengesIssued' = challengesIssued + o.issued
    /\ served' = served + 1
    /\ UNCHANGED <<policy, opts, OGTags, proc, now, DNSBLCache, jar, challengesValidated, failedValidations,
                   timeTaken, droneBLHits, ticks>>

-----------------------------------------------------------------------------
(* Server.PassChallenge *)

\* the comparison left out
ResponseMatchesAlways(response, calculated) == TRUE

\* anubis.go:476: the submitted response is the recomputed hash
ResponseMatches(response, calculated) == response = calculated

\* the leading zeroes not compared (CVE-2025-24369)
DifficultyMetSkipped(response, difficulty) == TRUE

\* anubis.go:485: the response has the leading zeroes of the difficulty
DifficultyMet(response, difficulty) == HasZeroPrefix(response, difficulty)

\* anubis.go:510-518: the attributes of the cookie PassChallenge sets, the
\* clock read as t for its Expires
SessionCookie(t) ==
    Cookie(AnubisCookieName, opts.CookieDomain, opts.CookiePartitioned, "Lax", "/",
           t + WeekDuration)

\* Server.PassChallenge, the clock read as clk
PassChallengeAt(r, clk) ==
    LET c == check(policy, r)
        base == Response("PassChallenge", c)
        cleared == [base EXCEPT !.cleared = TRUE]
        out(rs, observed, failed, validated) ==
            [resp |-> rs, observed |-> observed, failed |-> failed, validated |-> validated]
        fail500 == [cleared EXCEPT !.status = 500, !.page = "error"]
        fail403 == [cleared EXCEPT !.status = 403, !.page = "error"]
    IN  IF c.err # ""
        THEN out([base EXCEPT !.status = 500, !.page = "error"], 0, 0, 0)
        ELSE IF r.nonce = "" THEN out(fail500, 0, 0, 0)
        ELSE IF r.elapsedTime = "" THEN out(fail500, 0, 0, 0)
        ELSE IF ~ParsesAsFloat(r.elapsedTime) THEN out(fail500, 0, 0, 0)
        ELSE IF c.rule.Challenge = NilChallenge THEN out(Panicked(base), 1, 0, 0)
        ELSE LET difficulty == c.rule.Challenge.Difficulty
                 challenge == challengeFor(r, difficulty, clk.derive)
                 nonce == Atoi(r.nonce)
                 calculated == SHA256sum(CalcString(challenge, nonce))
             IN  IF nonce = NoInt THEN out(fail500, 1, 0, 0)
                 ELSE IF ~ResponseMatches(r.response, calculated) THEN out(fail403, 1, 1, 0)
                 ELSE IF ~DifficultyMet(r.response, difficulty) THEN out(fail403, 1, 1, 0)
                 ELSE out([base EXCEPT !.status = 302, !.page = "redirect",
                                       !.redirect = r.redir,
                                       !.body = challenge,
                                       !.setCookie = JWTCookie(Sign(
                                           Claims(challenge, nonce, r.response, clk), ServerKey)),
                                       !.attrs = SessionCookie(clk.expires)],
                          1, 0, 1)

\* the handler when every call of time.Now returns the same second
PassChallengeOn(r) == PassChallengeAt(r, Steady(now))

\* the right response of client cl for the nonce string n: the digest over
\* the challenge the server derives for cl (the client learned it from
\* MakeChallenge or the challenge page)
Solve(cl, n) ==
    LET r0 == Request(cl.ip, cl.ua, cl.lang, ApiPath, NoCookie, "", "", Junk(0), "/")
        c == check(policy, r0)
        d == IF c.err # "" THEN 0 ELSE c.rule.Challenge.Difficulty
    IN  SHA256sum(CalcString(challengeFor(r0, d, now), Atoi(n)))

Form(nonce, elapsedTime, response) ==
    [nonce |-> nonce, elapsedTime |-> elapsedTime, response |-> response]

\* the forms of the model: the browser submits right hashes for four nonces,
\* a hash for another nonce, a string of zeros, and the malformed forms;
\* curl the right hash for the nonces 0 and 1, the other clients for 1
NonceStrings == {"0", "1", "+1", "9007199254740993"}
FormsFor(cl) ==
    IF cl = Browser
    THEN { Form(n, "420", Solve(cl, n)) : n \in NonceStrings }
         \cup { Form("0", "420", Solve(cl, "1")),
                Form("0", "420", Junk(9)),
                Form("", "420", Solve(cl, "0")),
                Form("1", "", Solve(cl, "1")),
                Form("1", "soon", Solve(cl, "1")),
                Form("one", "420", Solve(cl, "1")) }
    ELSE IF cl.ua = "curl"
    THEN { Form("0", "420", Solve(cl, "0")), Form("1", "420", Solve(cl, "1")) }
    ELSE { Form("1", "420", Solve(cl, "1")) }

PassChallenge ==
    /\ served < MaxRequests
    /\ \E cl \in Clients :
         \E f \in FormsFor(cl) :
           LET r == Request(cl.ip, cl.ua, cl.lang, ApiPath, NoCookie,
                            f.nonce, f.elapsedTime, f.response, "/")
               o == PassChallengeOn(r)
           IN  /\ req' = r
               /\ resp' = o.resp
               /\ timeTaken' = timeTaken + o.observed
               /\ failedValidations' = failedValidations + o.failed
               /\ challengesValidated' = challengesValidated + o.validated
               /\ jar' = JarAfter(o.resp)
    /\ served' = served + 1
    /\ UNCHANGED <<policy, opts, OGTags, proc, now, DNSBLCache, challengesIssued, droneBLHits, ticks>>

\* a nonce beyond 2^53 whose digest has one leading zero
FarNonce == "9007199254740995"

\* Server.PassChallenge on the browser's right solution for FarNonce
PassChallengeFar ==
    /\ served < MaxRequests
    /\ LET r == Request(Browser.ip, Browser.ua, Browser.lang, ApiPath, NoCookie,
                        FarNonce, "420", Solve(Browser, FarNonce), "/")
           o == PassChallengeOn(r)
       IN  /\ req' = r
           /\ resp' = o.resp
           /\ timeTaken' = timeTaken + o.observed
           /\ failedValidations' = failedValidations + o.failed
           /\ challengesValidated' = challengesValidated + o.validated
           /\ jar' = JarAfter(o.resp)
    /\ served' = served + 1
    /\ UNCHANGED <<policy, opts, OGTags, proc, now, DNSBLCache, challengesIssued, droneBLHits, ticks>>

\* the readings of a handler that starts at t when the second changes just
\* before its k-th call of time.Now (1: challengeFor, 2: iat, 3: nbf, 4: exp,
\* 5: the cookie's Expires)
ReadingsAcross(t, k) ==
    Readings(t,
             IF k <= 2 THEN t + 1 ELSE t,
             IF k <= 3 THEN t + 1 ELSE t,
             IF k <= 4 THEN t + 1 ELSE t,
             t + 1)

\* Server.PassChallenge on a form of the browser while the clock moves on to
\* the next second
PassChallengeAcrossTick ==
    /\ served < MaxRequests
    /\ ticks < MaxTicks
    /\ \E f \in FormsFor(Browser), k \in 2..5 :
         LET r == Request(Browser.ip, Browser.ua, Browser.lang, ApiPath, NoCookie,
                          f.nonce, f.elapsedTime, f.response, "/")
             o == PassChallengeAt(r, ReadingsAcross(now, k))
         IN  /\ req' = r
             /\ resp' = o.resp
             /\ timeTaken' = timeTaken + o.observed
             /\ failedValidations' = failedValidations + o.failed
             /\ challengesValidated' = challengesValidated + o.validated
             /\ jar' = JarAfter(o.resp)
    /\ served' = served + 1
    /\ now' = now + 1
    /\ ticks' = ticks + 1
    /\ UNCHANGED <<policy, opts, OGTags, proc, DNSBLCache, challengesIssued, droneBLHits>>

-----------------------------------------------------------------------------
(* The clock *)

Tick ==
    /\ ticks < MaxTicks
    /\ \E d \in TickSteps : now' = now + d
    /\ ticks' = ticks + 1
    /\ UNCHANGED <<policy, opts, OGTags, proc, DNSBLCache, jar, challengesIssued, challengesValidated,
                   failedValidations, timeTaken, droneBLHits, req, resp, served>>

-----------------------------------------------------------------------------
(* The process: main of cmd/anubis, the two servers and the goroutines that *)
(* shut them down                                                           *)

\* the timeout of the context handed to srv.Shutdown, seconds
DrainWindow == 5

\* the process once main has reached srv.Serve; metrics: *metricsBind # ""
Started(metrics) ==
    [metrics |-> metrics,      \* the metrics server was started (wg.Add(1))
     ctxDone |-> FALSE,        \* the context of signal.NotifyContext is cancelled
     inShutdown |-> FALSE,     \* srv.Shutdown was called: the listener is closed
     shutdown |-> "idle",      \* srv.Shutdown: "idle", "waiting", "done" (nil), "timeout" (error)
     drain |-> 0,              \* seconds since srv.Shutdown was called
     serve |-> "running",      \* srv.Serve in main: "running", "returned"
     inflight |-> 0,           \* requests whose handler has not returned
     mInShutdown |-> FALSE,    \* the metrics server's Shutdown was called
     mServe |-> IF metrics THEN "running" ELSE "off",  \* its Serve; "returned": done() was called
     exited |-> FALSE,         \* main returned: the process is gone, its goroutines with it
     hk |-> "select",          \* startDecayMapCleanup: "select" (in the loop), "returned"
     tickerC |-> FALSE,        \* a tick is waiting in ticker.C (a channel of capacity 1)
     tickerStopped |-> FALSE,  \* ticker.Stop() was called
     sweeps |-> 0]             \* number of calls of s.CleanupDecayMap by the loop

-----------------------------------------------------------------------------
(* The server *)

\* the deployments of the model: lib.New on a parsed policy
Deployments ==
    { ParsedConfig(SitePolicy, 4, TRUE),
      ParsedConfig(SitePolicy, 0, FALSE),
      ParsedConfig(BenchmarkPolicy, 4, FALSE) }

\* lib.New on one of the policies ps and one of the options os, started at
\* one of the clock values ts
LibNew(ps, ts, os) ==
    /\ policy \in ps
    /\ opts \in os
    /\ now \in ts
    /\ DNSBLCache = << >>
    /\ OGTags = << >>
    /\ jar = NoCookie
    /\ challengesIssued = 0
    /\ challengesValidated = 0
    /\ failedValidations = 0
    /\ timeTaken = 0
    /\ droneBLHits = 0
    /\ req = NoRequest
    /\ resp = Response("", check(policy, NoRequest))
    /\ served = 0
    /\ ticks = 0

\* the server in a process started with the default -metrics-bind
InitAll(ps, ts, os) ==
    /\ LibNew(ps, ts, os)
    /\ proc = Started(TRUE)

\* the options of TestCookieSettings
TestOptions == Options("local.cetacean.club", TRUE, "TestCookieSettings")

\* lib.New on one of the policies ps with the options of the test
InitWith(ps, ts) == InitAll(ps, ts, {TestOptions})

Init == InitWith(Deployments, {StartTime})

Next ==
    \/ MaybeReverseProxy
    \/ MakeChallenge
    \/ PassChallenge
    \/ Tick

Spec == Init /\ [][Next]_vars

-----------------------------------------------------------------------------
(* The policy evaluator on its own: Server.check applied to a request, for  *)
(* every default difficulty (as TestCheckDefaultDifficultyMatchesPolicy     *)
(* calls it)                                                                *)

PolicyRequests ==
    { Request(cl.ip, cl.ua, cl.lang, path, NoCookie, "", "", Junk(0), "") :
        cl \in Clients \cup {Client(IPv4Addr, "", "en")}, path \in {"/", "/hard"} }

Evaluate ==
    /\ \E r \in PolicyRequests :
         /\ req' = r
         /\ resp' = Response("check", check(policy, r))
    /\ UNCHANGED <<policy, opts, OGTags, proc, now, DNSBLCache, jar, challengesIssued, challengesValidated,
                   failedValidations, timeTaken, droneBLHits, served, ticks>>

InitPolicy ==
    InitWith({ ParsedConfig(bots, d, FALSE) :
                 bots \in {SitePolicy, BenchmarkPolicy, << >>}, d \in 0..MaxDifficulty },
             {StartTime})

NextPolicy == Evaluate

SpecPolicy == InitPolicy /\ [][NextPolicy]_vars

-----------------------------------------------------------------------------
(* The challenge over time: the server started around a 7-day boundary and  *)
(* around the middle between two boundaries, issuing challenges as the      *)
(* clock advances                                                           *)

ClockStarts ==
    { 10 * WeekDuration - 1, 10 * WeekDuration + (WeekDuration \div 2) - 1 }

InitClock == InitWith({ParsedConfig(SitePolicy, 4, FALSE)}, ClockStarts)

NextClock ==
    \/ MakeChallenge
    \/ Tick

SpecClock == InitClock /\ [][NextClock]_vars

-----------------------------------------------------------------------------
(* Properties of the handlers                                               *)

\* the session token of the request was signed by the server's key, carries
\* an exp, and the exp lies after the clock at which the request was handled
GoodToken ==
    /\ req.cookie.kind = "jwt"
    /\ req.cookie.tok.key = ServerKey
    /\ req.cookie.tok.claims.exp # NoExp
    /\ resp.at < req.cookie.tok.claims.exp

\* the denylist cache held a listing for the client when the request was handled
CachedListing == policy.DNSBL /\ resp.cached \in {IRCDrone, UnknownError}

\* the denylist's listing page, the upstream not called, the cookie untouched
ListingPage ==
    /\ resp.status = 200
    /\ resp.page = "dnsbl"
    /\ ~resp.forwarded
    /\ ~resp.cleared
    /\ resp.setCookie = NoCookie

\* C1: PassChallenge answers 302 and sets a session cookie only when the
\* submitted response is the digest of the challenge derived for the request
\* followed by the decimal nonce and begins with at least D zeros, D being the
\* difficulty of the rule the evaluator chose; a right digest for nonce 0 that
\* lacks the zeros of D = 4 is answered 403, never 302.
C1_AcceptedSolution ==
    resp.op = "PassChallenge" =>
        LET D == resp.c.rule.Challenge.Difficulty
            digest == SHA256sum(CalcString(challengeFor(req, D, resp.at), Atoi(req.nonce)))
        IN  /\ (resp.status = 302 \/ resp.setCookie # NoCookie) =>
                  /\ resp.c.err = ""
                  /\ resp.status = 302
                  /\ resp.setCookie # NoCookie
                  /\ Atoi(req.nonce) # NoInt
                  /\ req.response = digest
                  /\ LeadingZeros(req.response) >= D
            /\ (/\ resp.c.err = ""
                /\ D = 4
                /\ req.nonce = "0"
                /\ req.elapsedTime = "420"
                /\ req.response = digest
                /\ LeadingZeros(req.response) < 4) => resp.status = 403

\* a solution is accepted at difficulty 4
C1_Witness ==
    /\ resp.op = "PassChallenge"
    /\ resp.status = 302
    /\ resp.setCookie # NoCookie
    /\ resp.c.rule.Challenge.Difficulty = 4
    /\ LeadingZeros(req.response) >= 4

\* C2: a token minted by PassChallenge for a client, presented again by the
\* same client (same Accept-Language, X-Real-Ip, User-Agent, same challenge
\* rule) before its exp is forwarded as PASS-BRIEF or PASS-FULL whatever the
\* coin; after its exp, or signed by another key, the challenge page is
\* rendered.
C2_TokenRoundTrip ==
    (/\ resp.op = "MaybeReverseProxy"
     /\ resp.c.err = ""
     /\ resp.c.cr.Rule = RuleChallenge
     /\ resp.page # "dnsbl"
     /\ req.cookie.kind = "jwt"
     /\ req.cookie.tok.claims.challenge.sha256.AcceptLanguage = req.lang
     /\ req.cookie.tok.claims.challenge.sha256.XRealIP = req.ip
     /\ req.cookie.tok.claims.challenge.sha256.UserAgent = req.ua
     /\ req.cookie.tok.claims.challenge.sha256.Difficulty = resp.c.rule.Challenge.Difficulty)
    => IF req.cookie.tok.key = ServerKey /\ resp.at < req.cookie.tok.claims.exp
       THEN resp.forwarded /\ resp.xstatus \in {"PASS-BRIEF", "PASS-FULL"}
       ELSE ~resp.forwarded /\ resp.page = "challenge"

\* C3 as stated: under a challenge rule the request is forwarded only with a
\* good token, and without one the cookie is cleared and the challenge page
\* rendered.
C3_ChallengeGate ==
    (resp.op = "MaybeReverseProxy" /\ resp.c.err = "" /\ resp.c.cr.Rule = RuleChallenge) =>
        /\ resp.forwarded => GoodToken
        /\ ~GoodToken => resp.cleared /\ resp.page = "challenge" /\ ~resp.forwarded

\* C3 amended: under a challenge rule the request is forwarded only with a
\* token signed by the server's key whose exp is present and in the future;
\* without one the upstream is not called and either the denylist cache holds
\* a listing for the client and the listing page is answered, or the cookie
\* is cleared and the challenge page for the request is rendered.
C3_ChallengeGateUnlessListed ==
    (resp.op = "MaybeReverseProxy" /\ resp.c.err = "" /\ resp.c.cr.Rule = RuleChallenge) =>
        /\ resp.forwarded => GoodToken
        /\ ~GoodToken =>
              /\ ~resp.forwarded
              /\ IF CachedListing
                 THEN ListingPage
                 ELSE /\ resp.cleared
                      /\ resp.status = 200
                      /\ resp.page = "challenge"
                      /\ resp.body = challengeFor(req, resp.c.rule.Challenge.Difficulty, resp.at)

\* a token signed by another key is answered with the challenge page
C3_Witness ==
    /\ resp.op = "MaybeReverseProxy"
    /\ resp.c.cr.Rule = RuleChallenge
    /\ req.cookie.kind = "jwt"
    /\ req.cookie.tok.key = OtherKey
    /\ resp.at < req.cookie.tok.claims.exp
    /\ resp.cleared
    /\ resp.page = "challenge"
    /\ ~resp.forwarded

\* the deny page of the matched rule: the digest of its name and of the
\* stable hash of its predicate
DenyPage ==
    /\ resp.cleared
    /\ resp.status = 200
    /\ resp.page = "deny"
    /\ "sha256" \in DOMAIN resp.body
    /\ resp.c.cr.Name = "bot/" \o resp.body.sha256.name
    /\ resp.body.sha256.rules = RulesHash(resp.c.rule.Rules)
    /\ ~resp.forwarded

\* C4 as stated: under a deny rule the cookie is cleared, the answer is 200
\* with the digest of "<rule name>::<predicate hash>", and the upstream is
\* never called, whatever cookie the request carries.
C4_DenyAlways ==
    (resp.op = "MaybeReverseProxy" /\ resp.c.err = "" /\ resp.c.cr.Rule = RuleDeny) =>
        DenyPage

\* C4 amended: under a deny rule the upstream is never called and the answer
\* is 200, whatever cookie the request carries: the listing page when the
\* denylist cache holds a listing for the client, and otherwise, the cookie
\* cleared, the page with the digest of "<rule name>::<predicate hash>".
C4_DenyUnlessListed ==
    (resp.op = "MaybeReverseProxy" /\ resp.c.err = "" /\ resp.c.cr.Rule = RuleDeny) =>
        /\ ~resp.forwarded
        /\ resp.status = 200
        /\ IF CachedListing THEN ListingPage ELSE DenyPage

\* a request with a good session token is denied
C4_Witness ==
    /\ resp.op = "MaybeReverseProxy"
    /\ resp.c.cr.Rule = RuleDeny
    /\ GoodToken
    /\ DenyPage

\* C5: with the denylist enabled, every gated request whose client is listed
\* (the lookup made for it returns a listing, or the cache holds one) is
\* answered with the 200 listing page and the upstream is not called, also
\* the first request of the client and also under an allow rule.
C5_DenylistHit ==
    (/\ resp.op = "MaybeReverseProxy"
     /\ resp.c.err = ""
     /\ policy.DNSBL
     /\ \/ resp.lookedUp /\ resp.lookup = IRCDrone
        \/ resp.cached = IRCDrone)
    => resp.status = 200 /\ resp.page = "dnsbl" /\ ~resp.forwarded

-----------------------------------------------------------------------------
(* Properties of the policy evaluator                                       *)

\* the X-Real-Ip header of the request holds an IP address
HasIP == req.ip \in {IPv4Addr, IPv6Addr}

\* the indexes of the rules of bots whose predicate matches r
Matching(bots, r) == { i \in 1..Len(bots) : RulesCheck(bots[i].Rules, r) = "match" }

\* the first of them
FirstMatching(bots, r) ==
    CHOOSE i \in Matching(bots, r) : \A j \in Matching(bots, r) : i <= j

\* rules to declare after a matching rule: none, rules that match r too, and
\* a rule that does not
LaterRules(r) ==
    { << >>,
      << Bot("later-deny", RuleDeny, ChallengeRules(0), "path", r.path) >>,
      << Bot("later-allow", RuleAllow, ChallengeRules(0), "user_agent", r.ua),
         Bot("later-challenge", RuleChallenge, ChallengeRules(3), "path", r.path) >>,
      << Bot("later-miss", RuleDeny, ChallengeRules(0), "path", "/nowhere") >> }

\* C6: check returns the first rule, in declaration order, whose predicate
\* matches the request, under the name "bot/" + rule name with the rule's
\* action; no rule declared after it is evaluated, and whatever is declared
\* after it in the place of the rules that are, the result is the same.
C6_PolicyOrder ==
    (resp.op = "check" /\ HasIP /\ Matching(policy.Bots, req) # {}) =>
        LET i == FirstMatching(policy.Bots, req)
            first == policy.Bots[i]
        IN  /\ resp.c.err = ""
            /\ resp.c.cr = CheckResult("bot/" \o first.Name, first.Action)
            /\ resp.c.rule = first
            /\ resp.c.evaluated = i
            /\ \A later \in LaterRules(req) :
                 LET changed == [policy EXCEPT !.Bots = SubSeq(policy.Bots, 1, i) \o later]
                 IN  /\ check(changed, req).cr = resp.c.cr
                     /\ check(changed, req).rule = resp.c.rule
                     /\ check(changed, req).evaluated = i

\* a request that several rules match, the first of them not the last rule
C6_Witness ==
    /\ resp.op = "check"
    /\ HasIP
    /\ Cardinality(Matching(policy.Bots, req)) >= 2
    /\ resp.c.evaluated < Len(policy.Bots)
    /\ resp.c.cr.Name = "bot/hard-path"

\* C7: when no rule matches, check returns ("default/allow", allow) and a
\* rule whose challenge params carry the policy's default difficulty as
\* difficulty and as report_as, with the fast algorithm, for every default
\* difficulty.
C7_DefaultPath ==
    (resp.op = "check" /\ HasIP /\ Matching(policy.Bots, req) = {}) =>
        /\ resp.c.err = ""
        /\ resp.c.cr = CheckResult("default/allow", RuleAllow)
        /\ resp.c.rule.Challenge.Difficulty = policy.DefaultDifficulty
        /\ resp.c.rule.Challenge.ReportAs = policy.DefaultDifficulty
        /\ resp.c.rule.Challenge.Algorithm = AlgorithmFast
        /\ resp.c.evaluated = Len(policy.Bots)

\* the default path taken past the rules of a policy with default difficulty 9
C7_Witness ==
    /\ resp.op = "check"
    /\ HasIP
    /\ Len(policy.Bots) > 0
    /\ Matching(policy.Bots, req) = {}
    /\ policy.DefaultDifficulty = 9
    /\ resp.c.rule.Challenge.Difficulty = 9

\* the answer to a request whose X-Real-Ip is absent or no IP address
MisconfigurationAnswer ==
    (resp.op \in {"MaybeReverseProxy", "MakeChallenge", "PassChallenge"} /\ ~HasIP) =>
        /\ resp.c.err = "misconfiguration"
        /\ resp.c.evaluated = 0
        /\ resp.status = 500
        /\ ~resp.forwarded
        /\ resp.body = NoBody
        /\ resp.setCookie = NoCookie

\* the step that handles such a request counts no challenge as issued and
\* none as validated, and leaves the client's cookie as it is
MisconfigurationStep ==
    (/\ served' = served + 1
     /\ resp'.op \in {"MaybeReverseProxy", "MakeChallenge", "PassChallenge"}
     /\ req'.ip \notin {IPv4Addr, IPv6Addr})
    => /\ challengesIssued' = challengesIssued
       /\ challengesValidated' = challengesValidated
       /\ jar' = jar

\* C8: when X-Real-Ip is absent or no IP address, check fails with the
\* misconfiguration error before it evaluates any rule, and the handler
\* answers 500: nothing is forwarded, no challenge is issued or put in the
\* answer, no token is minted.
C8_Misconfiguration == []MisconfigurationAnswer /\ [][MisconfigurationStep]_vars

\* a solved form sent with a header that is no IP address is answered 500
C8_Witness ==
    /\ resp.op = "PassChallenge"
    /\ req.ip = NotAnIP
    /\ req.nonce = "1"
    /\ req.elapsedTime = "420"
    /\ resp.status = 500

\* C9 as stated: check succeeds only for an IPv4 address in X-Real-Ip; an
\* IPv6 address is rejected with the misconfiguration error like a string
\* that is no address.
C9_IPv4Only ==
    resp.op = "check" =>
        /\ resp.c.err = "" => req.ip = IPv4Addr
        /\ req.ip \in {IPv6Addr, NotAnIP} => resp.c.err = "misconfiguration"

\* C9 amended: check succeeds only for a parsable IP address of either
\* family in X-Real-Ip; an IPv6 address passes the guard like an IPv4 address
\* and the rules are evaluated on the request, a string that is no address
\* and an absent header are rejected with the misconfiguration error.
C9_AnyIPFamily ==
    resp.op = "check" =>
        /\ resp.c.err = "" => req.ip \in {IPv4Addr, IPv6Addr}
        /\ req.ip \in {IPv4Addr, IPv6Addr} =>
              /\ resp.c.err = ""
              /\ resp.c.cr.Name # ""
              /\ resp.c.evaluated = IF Matching(policy.Bots, req) = {} THEN Len(policy.Bots)
                                    ELSE FirstMatching(policy.Bots, req)
        /\ req.ip \in {NotAnIP, ""} => resp.c.err = "misconfiguration" /\ resp.c.evaluated = 0

\* a request from an IPv6 address is matched by a rule on its address
C9_Witness ==
    /\ resp.op = "check"
    /\ req.ip = IPv6Addr
    /\ resp.c.err = ""
    /\ resp.c.cr = CheckResult("bot/v6-allow", RuleAllow)

-----------------------------------------------------------------------------
(* Properties of the challenge over time                                    *)

\* the response carries a derived challenge
Derived(rs) == rs.op = "MakeChallenge" /\ rs.status = 200

\* the 7-day boundary at or before t
BoundaryBefore(t) == (t \div WeekDuration) * WeekDuration

\* the 7-day boundary nearest to t, the later one halfway
BoundaryNearest(t) == ((t + WeekDuration \div 2) \div WeekDuration) * WeekDuration

\* C10 as stated: WeekTime is the time rounded down to a 7-day boundary; the
\* same request derives the same challenge at two times exactly when no
\* 7-day boundary lies between them.
C10_RoundedDown ==
    [][ (Derived(resp) /\ Derived(resp') /\ req' = req) =>
           /\ resp'.body.sha256.WeekTime = BoundaryBefore(resp'.at)
           /\ (resp'.body = resp.body) <=> (BoundaryBefore(resp'.at) = BoundaryBefore(resp.at)) ]_vars

\* C10 amended: WeekTime is the time rounded to the nearest 7-day boundary,
\* halfway up; the same request derives the same challenge at two times
\* exactly when both are nearest to the same boundary, so the challenge
\* changes 3.5 days after each boundary and at no other instant, not at the
\* boundary.
C10_RoundedToNearest ==
    [][ (Derived(resp) /\ Derived(resp') /\ req' = req) =>
           /\ resp'.body.sha256.WeekTime = BoundaryNearest(resp'.at)
           /\ (resp'.body = resp.body) <=> (BoundaryNearest(resp'.at) = BoundaryNearest(resp.at)) ]_vars

\* a challenge derived at the very middle between two boundaries carries the
\* boundary after it
C10_Witness ==
    /\ Derived(resp)
    /\ resp.at % WeekDuration = WeekDuration \div 2
    /\ resp.body.sha256.WeekTime = resp.at + WeekDuration \div 2

-----------------------------------------------------------------------------
(* Properties of the derived challenge                                      *)

\* the digest of the six inputs of the challenge
ChallengeOfInputs(lang, ip, ua, week, fingerprint, difficulty) ==
    SHA256sum([AcceptLanguage |-> lang, XRealIP |-> ip, UserAgent |-> ua,
               WeekTime |-> week, Fingerprint |-> fingerprint, Difficulty |-> difficulty])

\* the six inputs of the challenge of the request a response rs answers to r
InputsOf(r, rs) ==
    <<r.lang, r.ip, r.ua, BoundaryNearest(rs.at), SHA256sum([seed |-> ServerKey]),
      rs.c.rule.Challenge.Difficulty>>

\* the challenge these inputs give
ExpectedChallenge(r, rs) ==
    ChallengeOfInputs(InputsOf(r, rs)[1], InputsOf(r, rs)[2], InputsOf(r, rs)[3],
                      InputsOf(r, rs)[4], InputsOf(r, rs)[5], InputsOf(r, rs)[6])

\* the response carries a challenge: the JSON of MakeChallenge, the challenge
\* page of RenderIndex, the challenge PassChallenge validated
CarriesChallenge(rs) ==
    \/ rs.op = "MakeChallenge" /\ rs.status = 200
    \/ rs.op = "MaybeReverseProxy" /\ rs.page = "challenge"
    \/ rs.op = "PassChallenge" /\ rs.status = 302

\* every challenge a handler derives is the digest of the six inputs
ChallengeOfSixInputs ==
    /\ CarriesChallenge(resp) => resp.body = ExpectedChallenge(req, resp)
    /\ (resp.op = "PassChallenge" /\ resp.status = 302) =>
          resp.setCookie.tok.claims.challenge = ExpectedChallenge(req, resp)
    /\ resp.xstatus = "PASS-FULL" =>
          req.cookie.tok.claims.challenge = ExpectedChallenge(req, resp)

\* two derivations in a row that agree on the six inputs give the same
\* challenge, whichever handlers made them and whatever the paths and cookies
SameInputsSameChallenge ==
    (CarriesChallenge(resp) /\ CarriesChallenge(resp')
     /\ InputsOf(req', resp') = InputsOf(req, resp))
    => resp'.body = resp.body

\* C11: the challenge is a function of Accept-Language, X-Real-Ip,
\* User-Agent, the week time, the fingerprint of the key's seed and the
\* difficulty alone: derivations by MakeChallenge, PassChallenge, RenderIndex
\* and the secondary screening that agree on the six give the same string,
\* and neither the path nor the cookie of the request enters it.
C11_ChallengeDeterminism == []ChallengeOfSixInputs /\ [][SameInputsSameChallenge]_vars

\* the secondary screening, on a request for "/" with a cookie, derives the
\* challenge PassChallenge derived on the API path without one
C11_Witness ==
    /\ resp.op = "MaybeReverseProxy"
    /\ resp.xstatus = "PASS-FULL"
    /\ req.path = "/"
    /\ req.cookie.kind = "jwt"
    /\ req.cookie.tok.claims.challenge = ExpectedChallenge(req, resp)

-----------------------------------------------------------------------------
(* Properties of the gate                                                   *)

\* the request was handed to the upstream by MaybeReverseProxy
Forwarded == resp.op = "MaybeReverseProxy" /\ resp.forwarded

\* C12 as stated: every request handed to the upstream carries X-Anubis-Rule
\* (the check result's name), X-Anubis-Action (the action) and
\* X-Anubis-Status (PASS-BRIEF or PASS-FULL), the allow path included.
C12_AllHeadersStamped ==
    Forwarded =>
        /\ resp.xrule = resp.c.cr.Name
        /\ resp.xaction = resp.c.cr.Rule
        /\ resp.xstatus \in {"PASS-BRIEF", "PASS-FULL"}

\* C12 amended: every request handed to the upstream has X-Anubis-Rule (the
\* check result's name) and X-Anubis-Action (the action) added to it;
\* X-Anubis-Status (PASS-BRIEF or PASS-FULL) is added on the paths of a
\* challenge rule only, and none is added on the allow path.
C12_StatusOnChallengePaths ==
    Forwarded =>
        /\ resp.xrule = resp.c.cr.Name
        /\ resp.xaction = resp.c.cr.Rule
        /\ resp.c.cr.Rule \in {RuleAllow, RuleChallenge}
        /\ resp.c.cr.Rule = RuleChallenge => resp.xstatus \in {"PASS-BRIEF", "PASS-FULL"}
        /\ resp.c.cr.Rule = RuleAllow => resp.xstatus = ""

\* a request forwarded under an allow rule with the rule's name and action
C12_Witness ==
    /\ Forwarded
    /\ resp.c.cr = CheckResult("bot/v6-allow", RuleAllow)
    /\ resp.xrule = "bot/v6-allow"
    /\ resp.xaction = RuleAllow
    /\ resp.xstatus = ""

-----------------------------------------------------------------------------
(* The action switch: a policy with a rule of every action, and one whose   *)
(* action is none of the four, with and without the denylist                *)

\* an action tag outside config.RuleAllow, RuleDeny, RuleChallenge, RuleBenchmark
RuleUnknown == "WEIGH"

DispatchPolicy ==
    << Bot("hard-path", RuleChallenge, ChallengeRules(1), "path", "/hard"),
       Bot("open", RuleAllow, ChallengeRules(1), "user_agent", "Mozilla"),
       Bot("odd", RuleUnknown, ChallengeRules(4), "user_agent", "curl"),
       Bot("bench", RuleBenchmark, NilChallenge, "user_agent", "BadBot") >>

InitDispatch ==
    InitWith({ ParsedConfig(DispatchPolicy, 4, dnsbl) : dnsbl \in BOOLEAN }, {StartTime})

NextDispatch ==
    \/ MaybeReverseProxy
    \/ PassChallenge

SpecDispatch == InitDispatch /\ [][NextDispatch]_vars

\* C13: when the denylist does not answer, an allow action forwards the
\* request and neither inspects nor clears the cookie, a benchmark action
\* renders the benchmark page and does not forward, an action that is none of
\* allow, deny, challenge, benchmark clears the cookie and answers 500 without
\* forwarding, and only under a challenge action does the answer depend on
\* the cookie.
C13_ActionDispatch ==
    (resp.op = "MaybeReverseProxy" /\ resp.c.err = "" /\ ~CachedListing) =>
        /\ resp.c.cr.Rule = RuleAllow =>
              /\ resp.forwarded
              /\ ~resp.cleared
              /\ resp.status = 0
              /\ resp.page = ""
              /\ resp.xstatus = ""
        /\ resp.c.cr.Rule = RuleBenchmark =>
              /\ ~resp.forwarded
              /\ ~resp.cleared
              /\ resp.status = 200
              /\ resp.page = "bench"
        /\ resp.c.cr.Rule \notin {RuleAllow, RuleDeny, RuleChallenge, RuleBenchmark} =>
              /\ ~resp.forwarded
              /\ resp.cleared
              /\ resp.status = 500
              /\ resp.page = "error"
        /\ resp.c.cr.Rule = RuleChallenge =>
              /\ resp.forwarded => GoodToken
              /\ ~GoodToken => resp.cleared /\ ~resp.forwarded
        /\ resp.c.cr.Rule # RuleChallenge => resp.xstatus = "" /\ resp.page # "challenge"

\* a request with a good token under a rule of unknown action is answered 500
\* and its cookie cleared
C13_Witness ==
    /\ resp.op = "MaybeReverseProxy"
    /\ resp.c.cr.Rule = RuleUnknown
    /\ GoodToken
    /\ resp.status = 500
    /\ resp.cleared
    /\ ~resp.forwarded

-----------------------------------------------------------------------------
(* Properties of PassChallenge                                              *)

\* the step handles a PassChallenge request that check accepts
PassChallengeStep ==
    /\ served' = served + 1
    /\ resp'.op = "PassChallenge"
    /\ resp'.c.err = ""

\* the form of the request r has a nonce and an elapsedTime that parse
FormParses(r) ==
    /\ r.nonce # ""
    /\ r.elapsedTime # ""
    /\ ParsesAsFloat(r.elapsedTime)
    /\ Atoi(r.nonce) # NoInt

\* the digest PassChallenge computes for the request r answered by rs
DigestFor(r, rs) ==
    SHA256sum(CalcString(ExpectedChallenge(r, rs), Atoi(r.nonce)))

\* nothing was minted and no redirect issued; the cookie was cleared
Refused(rs) ==
    /\ rs.cleared
    /\ rs.setCookie = NoCookie
    /\ rs.redirect = ""
    /\ rs.page = "error"

\* a step in which PassChallenge reaches its two checks and one of them fails
FailedCheckStep ==
    (/\ PassChallengeStep
     /\ FormParses(req')
     /\ resp'.c.rule.Challenge # NilChallenge
     /\ \/ req'.response # DigestFor(req', resp')
        \/ LeadingZeros(req'.response) < resp'.c.rule.Challenge.Difficulty)
    => /\ resp'.status = 403
       /\ Refused(resp')
       /\ failedValidations' = failedValidations + 1
       /\ challengesValidated' = challengesValidated
       /\ jar' = NoCookie

\* C14: when the comparison of the response with the digest or the test of
\* its leading zeros fails, PassChallenge answers 403, counts exactly one
\* failed validation, clears the cookie, mints no token and redirects nowhere.
C14_FailedValidation == [][FailedCheckStep]_vars

\* a right digest short of the zeros of the difficulty was answered 403
C14_Witness ==
    /\ resp.op = "PassChallenge"
    /\ FormParses(req)
    /\ req.response = DigestFor(req, resp)
    /\ LeadingZeros(req.response) < resp.c.rule.Challenge.Difficulty
    /\ resp.status = 403
    /\ resp.cleared
    /\ failedValidations = 1

\* a step in which the form of a PassChallenge request lacks the nonce or the
\* elapsedTime, or one of them does not parse
MalformedFormStep ==
    (PassChallengeStep /\ ~FormParses(req'))
    => /\ resp'.status = 500
       /\ Refused(resp')
       /\ failedValidations' = failedValidations
       /\ challengesValidated' = challengesValidated

\* C15: a missing nonce, a missing elapsedTime, an elapsedTime that is no
\* number and a nonce that is no integer are each answered 500 with the
\* cookie cleared, no token, no redirect, and no failed or passed validation
\* counted.
C15_MalformedForm == [][MalformedFormStep]_vars

-----------------------------------------------------------------------------
(* The session cookie: the server of TestCookieSettings (default difficulty *)
(* 0) under several cookie options, PassChallenge running within a second   *)
(* and across the change of a second                                        *)

CookieOptions ==
    { TestOptions,
      Options("", FALSE, ""),
      Options("example.org", FALSE, "session") }

InitCookie == InitAll({ParsedConfig(SitePolicy, 0, FALSE)}, {StartTime}, CookieOptions)

NextCookie ==
    \/ PassChallenge
    \/ PassChallengeAcrossTick

SpecCookie == InitCookie /\ [][NextCookie]_vars

\* PassChallenge accepted the solution
Passed == resp.op = "PassChallenge" /\ resp.status = 302

\* C16: the cookie a successful PassChallenge sets has the Domain and the
\* Partitioned flag of the options, SameSite=Lax, Path=/, the signed token as
\* its value and the token's exp as its expiry; the answer is 302 to redir.
C16_CookieAttributes ==
    Passed =>
        /\ resp.attrs.domain = opts.CookieDomain
        /\ resp.attrs.partitioned = opts.CookiePartitioned
        /\ resp.attrs.sameSite = "Lax"
        /\ resp.attrs.path = "/"
        /\ resp.setCookie.kind = "jwt"
        /\ resp.setCookie.tok.key = ServerKey
        /\ resp.attrs.expires = resp.setCookie.tok.claims.exp
        /\ resp.redirect = req.redir

\* C17: PassChallenge sets the cookie under the name the options give, and
\* under the fixed default name only when the options give none.
C17_CookieNameConfigurable ==
    Passed =>
        resp.attrs.name = IF opts.CookieName # "" THEN opts.CookieName ELSE AnubisCookieName


-----------------------------------------------------------------------------
(* Properties of the denylist cache                                         *)

\* the gated handler made a denylist lookup for the request and it failed
LookupFailed == resp.op = "MaybeReverseProxy" /\ resp.lookedUp /\ resp.lookupErr

\* C18: when the denylist lookup made for a request fails, the client is
\* treated as not listed for that request (no listing page) and nothing is
\* written to the denylist cache: right after the request the cache holds no
\* entry for the client's IP, so that the next request looks it up afresh.
C18_FailedLookupNotCached ==
    LookupFailed =>
        /\ resp.page # "dnsbl"
        /\ ~DecayGet(DNSBLCache, req.ip, resp.at).ok


-----------------------------------------------------------------------------
(* Shutdown: the process from srv.Serve to the return of main, with         *)
(* requests arriving and completing, the signal, the two goroutines that    *)
(* call Shutdown, and the seconds of the drain window                       *)

\* srv.Serve accepts a connection and starts its handler
Accept ==
    /\ ~proc.exited
    /\ proc.serve = "running"
    /\ ~proc.inShutdown
    /\ served < MaxRequests
    /\ proc' = [proc EXCEPT !.inflight = @ + 1]
    /\ served' = served + 1
    /\ UNCHANGED <<policy, opts, OGTags, now, DNSBLCache, jar, challengesIssued, challengesValidated,
                   failedValidations, timeTaken, droneBLHits, req, resp, ticks>>

\* a handler returns
Finish ==
    /\ ~proc.exited
    /\ proc.inflight > 0
    /\ proc' = [proc EXCEPT !.inflight = @ - 1]
    /\ UNCHANGED <<policy, opts, OGTags, now, DNSBLCache, jar, challengesIssued, challengesValidated,
                   failedValidations, timeTaken, droneBLHits, req, resp, served, ticks>>

\* SIGINT or SIGTERM: the context of signal.NotifyContext is cancelled
Signal ==
    /\ ~proc.exited
    /\ ~proc.ctxDone
    /\ proc' = [proc EXCEPT !.ctxDone = TRUE]
    /\ UNCHANGED <<policy, opts, OGTags, now, DNSBLCache, jar, challengesIssued, challengesValidated,
                   failedValidations, timeTaken, droneBLHits, req, resp, served, ticks>>

\* the goroutine of main.go:303-310 wakes from <-ctx.Done() and calls
\* srv.Shutdown(c), c timing out after DrainWindow: the listener is closed,
\* and Shutdown starts to wait for the connections to become idle
CallShutdown ==
    /\ ~proc.exited
    /\ proc.ctxDone
    /\ proc.shutdown = "idle"
    /\ proc' = [proc EXCEPT !.inShutdown = TRUE, !.shutdown = "waiting", !.drain = 0]
    /\ UNCHANGED <<policy, opts, OGTags, now, DNSBLCache, jar, challengesIssued, challengesValidated,
                   failedValidations, timeTaken, droneBLHits, req, resp, served, ticks>>

\* a second of the drain window elapses
DrainTick ==
    /\ ~proc.exited
    /\ proc.shutdown = "waiting"
    /\ proc.drain < DrainWindow
    /\ proc' = [proc EXCEPT !.drain = @ + 1]
    /\ UNCHANGED <<policy, opts, OGTags, now, DNSBLCache, jar, challengesIssued, challengesValidated,
                   failedValidations, timeTaken, droneBLHits, req, resp, served, ticks>>

\* srv.Shutdown returns: nil once no request is in flight, the context's
\* error once the window is over
ShutdownReturns ==
    /\ ~proc.exited
    /\ proc.shutdown = "waiting"
    /\ \/ /\ proc.inflight = 0
          /\ proc' = [proc EXCEPT !.shutdown = "done"]
       \/ /\ proc.inflight > 0
          /\ proc.drain = DrainWindow
          /\ proc' = [proc EXCEPT !.shutdown = "timeout"]
    /\ UNCHANGED <<policy, opts, OGTags, now, DNSBLCache, jar, challengesIssued, challengesValidated,
                   failedValidations, timeTaken, droneBLHits, req, resp, served, ticks>>

\* srv.Serve in main returns http.ErrServerClosed: it does so as soon as
\* Shutdown has been called, not when Shutdown returns
ServeReturns ==
    /\ ~proc.exited
    /\ proc.serve = "running"
    /\ proc.inShutdown
    /\ proc' = [proc EXCEPT !.serve = "returned"]
    /\ UNCHANGED <<policy, opts, OGTags, now, DNSBLCache, jar, challengesIssued, challengesValidated,
                   failedValidations, timeTaken, droneBLHits, req, resp, served, ticks>>

\* metricsServer: its goroutine calls Shutdown once the context is cancelled
MetricsShutdown ==
    /\ ~proc.exited
    /\ proc.metrics
    /\ proc.ctxDone
    /\ ~proc.mInShutdown
    /\ proc' = [proc EXCEPT !.mInShutdown = TRUE]
    /\ UNCHANGED <<policy, opts, OGTags, now, DNSBLCache, jar, challengesIssued, challengesValidated,
                   failedValidations, timeTaken, droneBLHits, req, resp, served, ticks>>

\* metricsServer: its Serve returns http.ErrServerClosed and the deferred
\* done() releases the wait group
MetricsReturns ==
    /\ ~proc.exited
    /\ proc.mServe = "running"
    /\ proc.mInShutdown
    /\ proc' = [proc EXCEPT !.mServe = "returned"]
    /\ UNCHANGED <<policy, opts, OGTags, now, DNSBLCache, jar, challengesIssued, challengesValidated,
                   failedValidations, timeTaken, droneBLHits, req, resp, served, ticks>>

\* main.go:311-316: after srv.Serve has returned, wg.Wait() returns once the
\* metrics server (if any) is done, and main returns: the process exits
Exit ==
    /\ ~proc.exited
    /\ proc.serve = "returned"
    /\ proc.mServe # "running"
    /\ proc' = [proc EXCEPT !.exited = TRUE]
    /\ UNCHANGED <<policy, opts, OGTags, now, DNSBLCache, jar, challengesIssued, challengesValidated,
                   failedValidations, timeTaken, droneBLHits, req, resp, served, ticks>>

InitShutdown ==
    /\ LibNew({ParsedConfig(SitePolicy, 4, FALSE)}, {StartTime}, {TestOptions})
    /\ proc \in {Started(metrics) : metrics \in BOOLEAN}

NextShutdown ==
    \/ Accept
    \/ Finish
    \/ Signal
    \/ CallShutdown
    \/ DrainTick
    \/ ShutdownReturns
    \/ ServeReturns
    \/ MetricsShutdown
    \/ MetricsReturns
    \/ Exit

SpecShutdown == InitShutdown /\ [][NextShutdown]_vars

\* the process is gone only when no request is in flight or the drain window is over
DrainedAtExit == proc.exited => (proc.inflight = 0 \/ proc.drain = DrainWindow)

\* once Shutdown has closed the listener no request is accepted
NoAcceptInShutdown == proc.inShutdown => proc'.inflight <= proc.inflight

\* C19: after the server's context is cancelled and Shutdown has closed the
\* listener no new request is accepted, and the process does not exit while
\* a request in flight is still within the 5-second drain window: at exit
\* either no request is in flight or the 5 seconds are over.
C19_ShutdownDrain == []DrainedAtExit /\ [][NoAcceptInShutdown]_vars


-----------------------------------------------------------------------------
(* The denylist cache on its own: Set and Get as MaybeReverseProxy calls    *)
(* them, the hourly CleanupDecayMap, and the clock. In this specification   *)
(* served counts the calls of Set and Get, req holds the last Set made on   *)
(* each key, and resp the last Get and whether a Cleanup has run            *)

CacheKeys == {IPv4Addr, IPv6Addr}
CacheValues == {AllGood, IRCDrone}
CacheTTLs == {1, DNSBLTimeToLive}

\* the number of Set and Get calls of a behaviour
MaxCalls == 3

\* s.DNSBLCache.Set(k, v, ttl)
CacheSet ==
    /\ served < MaxCalls
    /\ \E k \in CacheKeys, v \in CacheValues, ttl \in CacheTTLs :
         /\ DNSBLCache' = DecaySet(DNSBLCache, k, v, ttl, now)
         /\ req' = [x \in DOMAIN req \cup {k} |->
                      IF x = k THEN [value |-> v, ttl |-> ttl, at |-> now] ELSE req[x]]
    /\ served' = served + 1
    /\ UNCHANGED <<policy, opts, OGTags, proc, now, jar, challengesIssued, challengesValidated,
                   failedValidations, timeTaken, droneBLHits, resp, ticks>>

\* s.DNSBLCache.Get(k)
CacheGet ==
    /\ served < MaxCalls
    /\ \E k \in CacheKeys :
         LET got == DecayGet(DNSBLCache, k, now)
         IN  /\ DNSBLCache' = got.data
             /\ resp' = [op |-> "Get", n |-> served + 1, key |-> k, at |-> now,
                         ok |-> got.ok, value |-> got.value, swept |-> resp.swept]
    /\ served' = served + 1
    /\ UNCHANGED <<policy, opts, OGTags, proc, now, jar, challengesIssued, challengesValidated,
                   failedValidations, timeTaken, droneBLHits, req, ticks>>

\* Server.CleanupDecayMap, as the hourly ticker of startDecayMapCleanup calls it
CleanupDecayMap ==
    /\ DNSBLCache' = CleanedCaches(DNSBLCache, OGTags, now).dnsbl
    /\ OGTags' = CleanedCaches(DNSBLCache, OGTags, now).og
    /\ resp' = [resp EXCEPT !.swept = TRUE]
    /\ UNCHANGED <<policy, opts, proc, now, jar, challengesIssued, challengesValidated,
                   failedValidations, timeTaken, droneBLHits, req, served, ticks>>

InitCache ==
    /\ policy = ParsedConfig(SitePolicy, 4, TRUE)
    /\ opts = TestOptions
    /\ proc = Started(TRUE)
    /\ now = StartTime
    /\ DNSBLCache = << >>
    /\ OGTags = << >>
    /\ jar = NoCookie
    /\ challengesIssued = 0
    /\ challengesValidated = 0
    /\ failedValidations = 0
    /\ timeTaken = 0
    /\ droneBLHits = 0
    /\ req = << >>
    /\ resp = [op |-> "", n |-> 0, key |-> "", at |-> now, ok |-> FALSE,
               value |-> AllGood, swept |-> FALSE]
    /\ served = 0
    /\ ticks = 0

NextCache ==
    \/ CacheSet
    \/ CacheGet
    \/ CleanupDecayMap
    \/ Tick

SpecCache == InitCache /\ [][NextCache]_vars

\* a step that is a Get (the call numbered served') of a key that has been
\* Set: the entry is reported
\* present with the value of the last Set when less than the ttl of that Set
\* has elapsed, and absent otherwise
GetStep ==
    (served' = served + 1 /\ resp'.n = served' /\ resp'.key \in DOMAIN req) =>
        LET last == req[resp'.key]
        IN  IF now < last.at + last.ttl
            THEN resp'.ok /\ resp'.value = last.value
            ELSE ~resp'.ok

\* C20: a Get(k) made after a Set(k, v, ttl), with no Set on k in between,
\* reports v present while less than ttl has elapsed since the Set, and
\* reports k absent once ttl has elapsed, whether or not Cleanup has run.
C20_CacheTTL == [][GetStep]_vars

\* a Get found an entry gone that was Set and has outlived its ttl, no
\* Cleanup having run
C20_Witness ==
    /\ resp.op = "Get"
    /\ ~resp.ok
    /\ ~resp.swept
    /\ resp.key \in DOMAIN req
    /\ resp.at >= req[resp.key].at + req[resp.key].ttl


\* the keys of the denylist cache whose entry has not expired at the clock
Live == {k \in DOMAIN DNSBLCache : DNSBLCache[k].expiry > now}

\* a step that is neither a Set, a Get nor a clock advance is a Cleanup: it
\* removes the entries whose expiry is at or before the clock and no other,
\* keeps the others as they are, and a second Cleanup at the same clock
\* would change nothing
CleanupStep ==
    (served' = served /\ ticks' = ticks) =>
        /\ DOMAIN DNSBLCache' = Live
        /\ \A k \in Live : DNSBLCache'[k] = DNSBLCache[k]
        /\ DecayCleanup(DNSBLCache', now') = DNSBLCache'

\* C21: Cleanup removes exactly the entries whose expiry is <= now and leaves
\* every other entry unchanged, so that a second Cleanup at the same clock
\* value leaves the map as the first one left it.
C21_IdempotentCleanup == [][CleanupStep]_vars

\* a Cleanup has removed the entry of a key that was Set and kept another,
\* no Get having touched the map
C21_Witness ==
    /\ resp.swept
    /\ resp.op = ""
    /\ \E k \in DOMAIN req : k \notin DOMAIN DNSBLCache
    /\ \E k \in DOMAIN req : k \in DOMAIN DNSBLCache


-----------------------------------------------------------------------------
(* The gate and the tokens it is shown: the site policy with and without    *)
(* the denylist, solutions submitted for small nonces and for one beyond    *)
(* 2^53, and the clock                                                      *)

InitScreening ==
    InitWith({ParsedConfig(SitePolicy, 4, dnsbl) : dnsbl \in BOOLEAN}, {StartTime})

NextScreening ==
    \/ MaybeReverseProxy
    \/ PassChallenge
    \/ PassChallengeFar
    \/ Tick

SpecScreening == InitScreening /\ [][NextScreening]_vars

-----------------------------------------------------------------------------
(* Properties of the secondary screening                                    *)

\* the step is MaybeReverseProxy on a request that carries a valid token
\* under a challenge rule, no listing page cut it short, and the coin
\* selected the verification
ScreenedStep ==
    /\ served' = served + 1
    /\ resp'.op = "MaybeReverseProxy"
    /\ resp'.c.err = ""
    /\ resp'.c.cr.Rule = RuleChallenge
    /\ resp'.page # "dnsbl"
    /\ TokenValid(req'.cookie, ServerKey, now)
    /\ resp'.xstatus # "PASS-BRIEF"

\* the challenge page with the cookie cleared, the upstream not called
Rechallenged(rs) ==
    /\ rs.cleared
    /\ rs.status = 200
    /\ rs.page = "challenge"
    /\ ~rs.forwarded
    /\ rs.xstatus = ""

ScreeningStep ==
    ScreenedStep =>
        LET claims == req'.cookie.tok.claims
            challenge == challengeFor(req', resp'.c.rule.Challenge.Difficulty, now)
            digest == SHA256sum(CalcString(challenge, claims.nonce))
            full == resp'.forwarded /\ resp'.xstatus = "PASS-FULL"
        IN  /\ resp'.forwarded => full
            /\ full => claims.challenge = challenge /\ claims.response = digest
            /\ claims.challenge # challenge =>
                 Rechallenged(resp') /\ failedValidations' = failedValidations
            /\ (claims.challenge = challenge /\ ~full) =>
                 Rechallenged(resp') /\ failedValidations' = failedValidations + 1

\* C22: when a valid token is presented under a challenge rule and the coin
\* selects verification, the request is forwarded, as PASS-FULL, only if the
\* token's challenge is the one recomputed for the request and the rule's
\* difficulty and its response is the digest of that challenge followed by
\* the decimal nonce; a challenge mismatch clears the cookie and renders the
\* challenge page with the failure counter untouched; a request whose
\* challenge matches and that is not passed, the response having been found
\* wrong, gets the same with the failure counter incremented by one.
C22_SecondaryScreening == [][ScreeningStep]_vars

\* a valid token was screened, its challenge was the one of the request and
\* its response was found wrong: the cookie is cleared, the challenge page
\* rendered and the failure counted
C22_Witness ==
    /\ resp.op = "MaybeReverseProxy"
    /\ resp.c.cr.Rule = RuleChallenge
    /\ TokenValid(req.cookie, ServerKey, resp.at)
    /\ req.cookie.tok.claims.challenge =
         challengeFor(req, resp.c.rule.Challenge.Difficulty, resp.at)
    /\ Rechallenged(resp)
    /\ failedValidations > 0


\* the gated handler met, under a challenge rule, a valid token of the server
\* that was minted for a client with another Accept-Language, X-Real-Ip or
\* User-Agent than the request's
ForeignToken ==
    /\ resp.op = "MaybeReverseProxy"
    /\ resp.c.err = ""
    /\ resp.c.cr.Rule = RuleChallenge
    /\ TokenValid(req.cookie, ServerKey, resp.at)
    /\ LET minted == req.cookie.tok.claims.challenge.sha256
       IN  \/ minted.AcceptLanguage # req.lang
           \/ minted.XRealIP # req.ip
           \/ minted.UserAgent # req.ua

\* C23: under a challenge rule, a validly signed, unexpired token minted for
\* one client and presented with another Accept-Language, X-Real-Ip or
\* User-Agent is never forwarded as PASS-FULL; when it is forwarded at all it
\* is as PASS-BRIEF, the coin having selected the fast path.
C23_BindingOnFullPathOnly ==
    ForeignToken =>
        /\ resp.xstatus # "PASS-FULL"
        /\ resp.forwarded => resp.xstatus = "PASS-BRIEF"

\* the token of another client was let through on the fast path
C23_Witness ==
    /\ ForeignToken
    /\ resp.forwarded
    /\ resp.xstatus = "PASS-BRIEF"


-----------------------------------------------------------------------------
(* The difficulty of a protected path: the browser is shown the challenge   *)
(* page for "/" or "/hard" and submits a solution with redir set to that    *)
(* path, for the challenge of the page or for the one MakeChallenge hands   *)
(* out                                                                      *)

\* the request the client made for path, the one the challenge page answered
Protected(r, path) == [r EXCEPT !.path = path, !.nonce = "", !.elapsedTime = "",
                                 !.response = Junk(0), !.redir = ""]

\* the challenge RenderIndex embedded in the page for r
PageChallenge(r) == challengeFor(r, check(policy, r).rule.Challenge.Difficulty, now)

\* Server.PassChallenge on a solution of the browser for a protected path
PassChallengeRedirected ==
    /\ served < MaxRequests
    /\ \E path \in {"/", "/hard"}, n \in {"0", "1"}, page \in BOOLEAN :
         LET api == Request(Browser.ip, Browser.ua, Browser.lang, ApiPath, NoCookie,
                            n, "420", Junk(0), path)
             solved == IF page
                       THEN SHA256sum(CalcString(PageChallenge(Protected(api, path)), Atoi(n)))
                       ELSE Solve(Browser, n)
             r == [api EXCEPT !.response = solved]
             o == PassChallengeOn(r)
         IN  /\ req' = r
             /\ resp' = o.resp
             /\ timeTaken' = timeTaken + o.observed
             /\ failedValidations' = failedValidations + o.failed
             /\ challengesValidated' = challengesValidated + o.validated
             /\ jar' = JarAfter(o.resp)
    /\ served' = served + 1
    /\ UNCHANGED <<policy, opts, OGTags, proc, now, DNSBLCache, challengesIssued, droneBLHits, ticks>>

InitDifficulty == InitWith({ParsedConfig(SitePolicy, 4, FALSE)}, {StartTime})

NextDifficulty ==
    \/ MaybeReverseProxy
    \/ MakeChallenge
    \/ PassChallengeRedirected

SpecDifficulty == InitDifficulty /\ [][NextDifficulty]_vars

\* C24: a token is minted only for a solution at the difficulty of the
\* challenge rule that governs the protected request (the one redir names),
\* rules that match on the path included: the difficulty PassChallenge
\* enforced is that rule's, the solved challenge is the one of the challenge
\* page, and the response has that many leading zeros.
C24_DifficultyOfProtectedRequest ==
    (resp.op = "PassChallenge" /\ resp.status = 302) =>
        LET governing == check(policy, Protected(req, req.redir))
        IN  (governing.err = "" /\ governing.cr.Rule = RuleChallenge) =>
                /\ resp.c.rule.Challenge.Difficulty = governing.rule.Challenge.Difficulty
                /\ resp.body = PageChallenge(Protected(req, req.redir))
                /\ LeadingZeros(req.response) >= governing.rule.Challenge.Difficulty


-----------------------------------------------------------------------------
(* Properties of the rules the evaluator hands to the handlers              *)

\* C25: every rule Server.check returns without an error carries challenge
\* params, and MakeChallenge, PassChallenge and MaybeReverseProxy then
\* complete with a defined answer (a status written, or the upstream
\* called): no handler reads the difficulty of a rule without challenge
\* params, the single benchmark rule of -debug-benchmark-js included.
C25_ChallengeParamsPresent ==
    (resp.op \in {"MakeChallenge", "PassChallenge", "MaybeReverseProxy"} /\ resp.c.err = "") =>
        /\ resp.c.rule.Challenge # NilChallenge
        /\ resp.page # "panic"
        /\ resp.status # 0 \/ resp.forwarded


-----------------------------------------------------------------------------
(* The X-Anubis-* headers the upstream receives: the gated handler on       *)
(* requests that arrive with such headers already set by the client         *)

\* http.Header.Add: the value is appended to those the key already has
HeaderAdd(values, v) == IF v = "" THEN values ELSE Append(values, v)

\* the X-Anubis-* headers of a request: the values of each key, in order
AnubisHeaders(rule, action, status) == [rule |-> rule, action |-> action, status |-> status]

\* what clients send: nothing, or a forged acceptance
SentHeaders ==
    { AnubisHeaders(<< >>, << >>, << >>),
      AnubisHeaders(<< >>, << >>, <<"PASS-FULL">>),
      AnubisHeaders(<<"bot/trusted">>, <<RuleAllow>>, <<"PASS-FULL">>) }

\* the headers of the request as s.next.ServeHTTP receives it, rs being what
\* the handler added (anubis.go:205-206, 295, 335)
Upstream(sent, rs) ==
    AnubisHeaders(HeaderAdd(sent.rule, rs.xrule),
                  HeaderAdd(sent.action, rs.xaction),
                  HeaderAdd(sent.status, rs.xstatus))

\* Server.MaybeReverseProxy on a request that carries the headers sent
MaybeReverseProxySent ==
    /\ served < MaxRequests
    /\ \E r \in GatedRequests, sent \in SentHeaders :
         \E coin \in Coins(r), lk \in Answers(r) :
           LET o == MaybeReverseProxyOn(r, coin, lk)
           IN  /\ req' = [f \in DOMAIN r \cup {"sent"} |-> IF f = "sent" THEN sent ELSE r[f]]
               /\ resp' = [f \in DOMAIN o.resp \cup {"upstream"} |->
                             IF f = "upstream" THEN Upstream(sent, o.resp) ELSE o.resp[f]]
               /\ DNSBLCache' = o.cache
               /\ droneBLHits' = droneBLHits + o.hits
               /\ failedValidations' = failedValidations + o.failed
               /\ jar' = JarAfter(o.resp)
    /\ served' = served + 1
    /\ UNCHANGED <<policy, opts, OGTags, proc, now, challengesIssued, challengesValidated, timeTaken, ticks>>

InitHeaders == InitWith({ParsedConfig(SitePolicy, 4, FALSE)}, {StartTime})

NextHeaders ==
    \/ MaybeReverseProxySent
    \/ PassChallenge

SpecHeaders == InitHeaders /\ [][NextHeaders]_vars

\* C26: the X-Anubis-Rule, X-Anubis-Action and X-Anubis-Status values that
\* reach the upstream are exactly the ones MaybeReverseProxy stamped for the
\* request; a value the client supplied for one of them never reaches it.
C26_NoClientStamps ==
    (Forwarded /\ "upstream" \in DOMAIN resp) =>
        /\ resp.upstream.rule = <<resp.c.cr.Name>>
        /\ resp.upstream.action = <<resp.c.cr.Rule>>
        /\ resp.upstream.status = IF resp.xstatus = "" THEN << >> ELSE <<resp.xstatus>>


-----------------------------------------------------------------------------
(* Properties of the gated handler as a whole                               *)

AnubisPages == {"error", "dnsbl", "deny", "bench", "challenge"}

\* C27: each request handled by MaybeReverseProxy ends in exactly one
\* terminal outcome: it is handed to the upstream and Anubis writes nothing,
\* or it is answered with one Anubis page (error, denylist, deny, benchmark
\* or challenge) and the upstream is not called; never both, never neither.
C27_OneOutcome ==
    resp.op = "MaybeReverseProxy" =>
        \/ resp.forwarded /\ resp.status = 0 /\ resp.page = ""
        \/ ~resp.forwarded /\ resp.status # 0 /\ resp.page \in AnubisPages

\* a request without a cookie was answered with the challenge page and
\* nothing else
C27_Witness ==
    /\ resp.op = "MaybeReverseProxy"
    /\ req.cookie = NoCookie
    /\ resp.page = "challenge"
    /\ resp.status = 200
    /\ ~resp.forwarded


\* a MaybeReverseProxy step and the denylist: a lookup is made exactly when
\* the denylist is enabled, the evaluation succeeded and Get on the client's
\* IP returns absent, which it does for an IP looked up before only once 24
\* hours have passed; the lookup's result is stored under the IP for 24 hours;
\* a request that finds an entry is decided by it and writes nothing; with
\* the denylist disabled nothing is looked up or written
DenylistStep ==
    (served' = served + 1 /\ resp'.op = "MaybeReverseProxy") =>
        LET ip == req'.ip
            got == DecayGet(DNSBLCache, ip, now)
            consulted == policy.DNSBL /\ resp'.c.err = ""
        IN  /\ resp'.lookedUp <=> (consulted /\ ~got.ok)
            /\ (resp'.lookedUp /\ ip \in DOMAIN DNSBLCache) =>
                   now >= (DNSBLCache[ip].expiry - 24 * Hour) + 24 * Hour
            /\ resp'.lookedUp =>
                   /\ ip \in DOMAIN DNSBLCache'
                   /\ DNSBLCache'[ip] = [value |-> resp'.lookup, expiry |-> now + 24 * Hour]
                   /\ \A k \in DOMAIN DNSBLCache' \ {ip} :
                        k \in DOMAIN DNSBLCache /\ DNSBLCache'[k] = DNSBLCache[k]
            /\ (consulted /\ got.ok) =>
                   /\ DNSBLCache' = DNSBLCache
                   /\ resp'.cached = got.value
                   /\ (resp'.page = "dnsbl") <=> (got.value # AllGood)
            /\ ~consulted => DNSBLCache' = DNSBLCache

\* C28: the denylist resolver is consulted only through the cache: with the
\* denylist enabled a lookup is made only when Get on the client's IP returns
\* absent, its result is stored under that IP with a ttl of 24 hours, and a
\* later request from that IP within the 24 hours makes no lookup and is
\* decided by the cached classification; with the denylist disabled no lookup
\* is made and the cache is never written.
C28_LookupThroughCache == [][DenylistStep]_vars

\* a second request of an IP, a second after the first, was decided by the
\* cached classification without a lookup
C28_Witness ==
    /\ resp.op = "MaybeReverseProxy"
    /\ policy.DNSBL
    /\ resp.at = StartTime + 1
    /\ ~resp.lookedUp
    /\ resp.cached = AllGood
    /\ req.ip \in DOMAIN DNSBLCache
    /\ DNSBLCache[req.ip].expiry = StartTime + 24 * Hour


-----------------------------------------------------------------------------
(* Concurrent gated requests and the denylist cache: two handlers run the   *)
(* denylist block of MaybeReverseProxy (anubis.go:212-222), each call of    *)
(* Get, Lookup and Set a step of its own, the cache's mutex held only       *)
(* within Get and within Set. In this specification served counts the       *)
(* requests taken up, req holds the IP of each handler's request and the    *)
(* Sets made so far, in order, and resp each handler's position and locals  *)

Handlers == {1, 2}

\* a handler between requests
Idle == [pc |-> "idle", ok |-> FALSE, value |-> AllGood, answer |-> AllGood, verdict |-> ""]

\* net/http starts handler h on a request from ip (one request more than
\* MaxRequests, for a request that comes after two that raced)
HandlerStart ==
    /\ served < MaxRequests + 1
    /\ \E h \in Handlers, ip \in CacheKeys :
         /\ resp[h].pc \in {"idle", "done"}
         /\ req' = [req EXCEPT !.ip[h] = ip]
         /\ resp' = [resp EXCEPT ![h] = [Idle EXCEPT !.pc = "get"]]
    /\ served' = served + 1
    /\ UNCHANGED <<policy, opts, OGTags, proc, now, DNSBLCache, jar, challengesIssued,
                   challengesValidated, failedValidations, timeTaken, droneBLHits, ticks>>

\* anubis.go:213: resp, ok := s.DNSBLCache.Get(ip); on a hit the handler
\* goes on to anubis.go:224 with the cached value
HandlerGetOf(h) ==
    /\ resp[h].pc = "get"
    /\ LET got == DecayGet(DNSBLCache, req.ip[h], now)
       IN  /\ DNSBLCache' = got.data
           /\ resp' = [resp EXCEPT ![h] =
                         [@ EXCEPT !.pc = IF got.ok THEN "done" ELSE "lookup",
                                   !.ok = got.ok,
                                   !.value = got.value,
                                   !.verdict = IF got.ok THEN got.value ELSE ""]]
    /\ UNCHANGED <<policy, opts, OGTags, proc, now, jar, challengesIssued, challengesValidated,
                   failedValidations, timeTaken, droneBLHits, req, served, ticks>>

HandlerGet == \E h \in Handlers : HandlerGetOf(h)

\* anubis.go:216: resp, err := dnsbl.Lookup(ip), outside any lock
HandlerLookupOf(h) ==
    /\ resp[h].pc = "lookup"
    /\ \E lk \in Lookup(req.ip[h]) :
         resp' = [resp EXCEPT ![h] = [@ EXCEPT !.pc = "set", !.answer = lk.resp]]
    /\ UNCHANGED <<policy, opts, OGTags, proc, now, DNSBLCache, jar, challengesIssued,
                   challengesValidated, failedValidations, timeTaken, droneBLHits,
                   req, served, ticks>>

HandlerLookup == \E h \in Handlers : HandlerLookupOf(h)

\* anubis.go:220-221: s.DNSBLCache.Set(ip, resp, 24*time.Hour) and the hit
\* counter; the handler goes on to anubis.go:224 with the outer resp
HandlerSetOf(h) ==
    /\ resp[h].pc = "set"
    /\ DNSBLCache' = DecaySet(DNSBLCache, req.ip[h], resp[h].answer, DNSBLTimeToLive, now)
    /\ req' = [req EXCEPT !.sets = Append(@, [ip |-> req.ip[h], value |-> resp[h].answer,
                                              by |-> h])]
    /\ resp' = [resp EXCEPT ![h] =
                  [@ EXCEPT !.pc = "done",
                            !.verdict = DNSBLVerdict([value |-> resp[h].value],
                                                     [resp |-> resp[h].answer])]]
    /\ droneBLHits' = droneBLHits + 1
    /\ UNCHANGED <<policy, opts, OGTags, proc, now, jar, challengesIssued, challengesValidated,
                   failedValidations, timeTaken, served, ticks>>

HandlerSet == \E h \in Handlers : HandlerSetOf(h)

InitConcurrent ==
    /\ policy = ParsedConfig(SitePolicy, 4, TRUE)
    /\ opts = TestOptions
    /\ proc = Started(TRUE)
    /\ now = StartTime
    /\ DNSBLCache = << >>
    /\ OGTags = << >>
    /\ jar = NoCookie
    /\ challengesIssued = 0
    /\ challengesValidated = 0
    /\ failedValidations = 0
    /\ timeTaken = 0
    /\ droneBLHits = 0
    /\ req = [ip |-> [h \in Handlers |-> ""], sets |-> << >>]
    /\ resp = [h \in Handlers |-> Idle]
    /\ served = 0
    /\ ticks = 0

NextConcurrent ==
    \/ HandlerStart
    \/ HandlerGet
    \/ HandlerLookup
    \/ HandlerSet

SpecConcurrent == InitConcurrent /\ [][NextConcurrent]_vars

\* the Sets made so far on ip, in order
SetsOn(ip) == SelectSeq(req.sets, LAMBDA s : s.ip = ip)

\* what a handler's Get returned as present is the value of an earlier Set on
\* the same IP
GetSeesASet ==
    \A h \in Handlers :
        resp[h].ok => \E i \in 1..Len(req.sets) :
                         req.sets[i].ip = req.ip[h] /\ req.sets[i].value = resp[h].value

\* the cache holds, for each IP that was Set, the one entry written last
LastWriteWins ==
    /\ DOMAIN DNSBLCache = {req.sets[i].ip : i \in 1..Len(req.sets)}
    /\ \A ip \in DOMAIN DNSBLCache :
         DNSBLCache[ip].value = SetsOn(ip)[Len(SetsOn(ip))].value

\* a handler in the denylist block can take its next step whatever the other
\* handler is doing
NeverBlocked ==
    \A h \in Handlers :
        /\ resp[h].pc = "get" => ENABLED HandlerGetOf(h)
        /\ resp[h].pc = "lookup" => ENABLED HandlerLookupOf(h)
        /\ resp[h].pc = "set" => ENABLED HandlerSetOf(h)

\* C29: under concurrent gated requests a Get for an IP returns absent or the
\* value of an earlier Set for that IP; when two handlers for the same
\* uncached IP interleave (both miss, both look up, both Set) the cache
\* afterwards holds one entry for the IP, equal to the result written last;
\* and no handler waits for the other.
C29_CacheConsistent == GetSeesASet /\ LastWriteWins /\ NeverBlocked

\* both handlers missed on the same IP, both looked it up with different
\* results, and both have Set
C29_Witness ==
    /\ \A h \in Handlers : resp[h].pc = "done" /\ ~resp[h].ok
    /\ req.ip[1] = req.ip[2]
    /\ Len(req.sets) = 2
    /\ req.sets[1].by # req.sets[2].by
    /\ req.sets[1].value # req.sets[2].value
    /\ DNSBLCache[req.ip[1]].value = req.sets[2].value


-----------------------------------------------------------------------------
(* Housekeeping: the goroutine startDecayMapCleanup, its hourly ticker and  *)
(* the cancellation of the server's context, over caches that hold entries  *)
(* expiring within the first hours                                          *)

\* the hours the model lets the ticker run
MaxHours == 2

\* an hour passes and the ticker sends on ticker.C; the send is dropped when
\* a tick is still waiting there
TickerFires ==
    /\ ~proc.tickerStopped
    /\ ticks < MaxHours
    /\ now' = now + Hour
    /\ ticks' = ticks + 1
    /\ proc' = [proc EXCEPT !.tickerC = TRUE]
    /\ UNCHANGED <<policy, opts, DNSBLCache, OGTags, jar, challengesIssued,
                   challengesValidated, failedValidations, timeTaken, droneBLHits,
                   req, resp, served>>

\* main.go:166-167: the select receives from ticker.C and calls s.CleanupDecayMap()
HousekeepingSweep ==
    /\ proc.hk = "select"
    /\ proc.tickerC
    /\ proc' = [proc EXCEPT !.tickerC = FALSE, !.sweeps = @ + 1]
    /\ DNSBLCache' = CleanedCaches(DNSBLCache, OGTags, now).dnsbl
    /\ OGTags' = CleanedCaches(DNSBLCache, OGTags, now).og
    /\ UNCHANGED <<policy, opts, now, jar, challengesIssued, challengesValidated,
                   failedValidations, timeTaken, droneBLHits, req, resp, served, ticks>>

\* main.go:168-169 and 162: the select receives from ctx.Done(), the function
\* returns and the deferred ticker.Stop() runs
HousekeepingReturn ==
    /\ proc.hk = "select"
    /\ proc.ctxDone
    /\ proc' = [proc EXCEPT !.hk = "returned", !.tickerStopped = TRUE]
    /\ UNCHANGED <<policy, opts, now, DNSBLCache, OGTags, jar, challengesIssued,
                   challengesValidated, failedValidations, timeTaken, droneBLHits,
                   req, resp, served, ticks>>

\* cache contents at the start: entries that expire after one hour, after
\* two hours, and after a day
Stocks(keys, v) ==
    { [k \in ks |-> [value |-> v, expiry |-> StartTime + ttl]] :
        ks \in SUBSET keys, ttl \in {Hour, 2 * Hour, DNSBLTimeToLive} }

\* the server after some requests have filled its caches
InitHousekeeping ==
    /\ policy = ParsedConfig(SitePolicy, 4, TRUE)
    /\ opts = TestOptions
    /\ proc = Started(TRUE)
    /\ now = StartTime
    /\ DNSBLCache \in Stocks({IPv4Addr, IPv6Addr}, IRCDrone)
    /\ OGTags \in Stocks({"/"}, "og:title")
    /\ jar = NoCookie
    /\ challengesIssued = 0
    /\ challengesValidated = 0
    /\ failedValidations = 0
    /\ timeTaken = 0
    /\ droneBLHits = 0
    /\ req = NoRequest
    /\ resp = Response("", check(policy, NoRequest))
    /\ served = 0
    /\ ticks = 0

NextHousekeeping ==
    \/ TickerFires
    \/ HousekeepingSweep
    \/ HousekeepingReturn
    \/ Signal

\* the select chooses at random among the cases that are ready and ctx.Done()
\* stays ready once closed, so the return is not put off for ever
SpecHousekeeping ==
    InitHousekeeping /\ [][NextHousekeeping]_vars /\ WF_vars(HousekeepingReturn)


\* a step in which the loop received a tick: it called Cleanup on both caches
SweepStep ==
    /\ (proc.tickerC /\ ~proc'.tickerC) => proc'.sweeps = proc.sweeps + 1
    /\ proc'.sweeps # proc.sweeps =>
         /\ proc.tickerC
         /\ proc'.sweeps = proc.sweeps + 1
         /\ DNSBLCache' = DecayCleanup(DNSBLCache, now)
         /\ OGTags' = DecayCleanup(OGTags, now)

\* the loop has returned only after a cancellation, and then the ticker is stopped
ReturnedOnlyOnCancel ==
    /\ proc.hk = "returned" => proc.ctxDone /\ proc.tickerStopped
    /\ proc.tickerStopped => proc.hk = "returned"

-----------------------------------------------------------------------------
(* The claims of the token PassChallenge mints                               *)

\* the claims of the token a successful PassChallenge put in its cookie
Minted == resp.setCookie.tok.claims

\* C31: every token minted by PassChallenge has exp = iat + 7 days and
\* nbf = iat - 60 seconds exactly, in whole seconds, and carries the
\* challenge, the nonce and the response that were just validated.
C31_TokenClaims ==
    Passed =>
        /\ resp.setCookie.kind = "jwt"
        /\ Minted.exp = Minted.iat + 7 * 24 * 3600
        /\ Minted.nbf = Minted.iat - 60
        /\ Minted.challenge = resp.body
        /\ Minted.nonce = Atoi(req.nonce)
        /\ Minted.response = req.response


-----------------------------------------------------------------------------
(* The latency histogram timeTaken                                          *)

\* a step of PassChallenge: a pass adds one observation, an answer of 403 or
\* 500 none
ObservedOnPassStep ==
    (served' = served + 1 /\ resp'.op = "PassChallenge") =>
        /\ resp'.status = 302 => timeTaken' = timeTaken + 1
        /\ resp'.status \in {403, 500} => timeTaken' = timeTaken

\* C32: the latency histogram records elapsedTime as part of a successful
\* pass: each successful PassChallenge adds exactly one observation, and a
\* PassChallenge answered 403 (failed proof of work) or 500 (malformed input)
\* leaves the histogram unchanged.
C32_ObservedOnPassOnly == [][ObservedOnPassStep]_vars


-----------------------------------------------------------------------------
(* Properties of MakeChallenge                                              *)

\* a step of MakeChallenge: the challenge and the params of the chosen rule
\* with one more challenge issued, or 500 with none; no cookie, no upstream
IssuedStep ==
    (served' = served + 1 /\ resp'.op = "MakeChallenge") =>
        /\ resp'.c.err = "" =>
             /\ resp'.status = 200
             /\ resp'.page = "json"
             /\ resp'.rules = resp'.c.rule.Challenge
             /\ resp'.body = challengeFor(req', resp'.c.rule.Challenge.Difficulty, now)
             /\ challengesIssued' = challengesIssued + 1
        /\ resp'.c.err # "" =>
             /\ resp'.status = 500
             /\ challengesIssued' = challengesIssued
        /\ resp'.setCookie = NoCookie
        /\ ~resp'.cleared
        /\ ~resp'.forwarded
        /\ jar' = jar

\* C33: MakeChallenge, when evaluation succeeds, returns the challenge
\* derived for the request at the difficulty of the rule the evaluator chose
\* together with that rule's challenge params, and increments the
\* issued-challenges counter by exactly one; when evaluation fails it answers
\* 500 and leaves the counter unchanged. MakeChallenge never sets or clears a
\* cookie and never forwards to the upstream.
C33_MakeChallenge == [][IssuedStep]_vars

====
